---- MODULE Spec2Model ----
(***************************************************************************)
(* A model of the BitBLT engine: the reference scan (reference/bitblt.js), *)
(* the textual and binary generators, the generator factory and the        *)
(* top-level dispatcher bitblt() with its oracle verification.             *)
(*                                                                         *)
(* Pixel buffers are Uint32Array values: sequences of 32-bit words, index  *)
(* 0 of the array being element 1 of the sequence.                         *)
(***************************************************************************)
EXTENDS Integers, Sequences, FiniteSets, TLC

VARIABLES
    heap,     \* the caller's buffers: buffer id -> Uint32Array contents
    call,     \* the top-level call in progress, or the last one settled
    userGen,  \* a generator instance the caller holds (createGenerator)
    genLog,   \* instrumentation: fingerprint -> number of generate() runs
    config,   \* the module-level config object of bitblt.js
    keys,     \* the parameter records and cache keys of the key functions
    bin,      \* the inputs and the bytes of the binary encoders
    tasks,    \* the compile calls made on the caller's generator, in call order
    defaultGenerator  \* the module-level defaultGenerator of bitblt.js

vars == <<heap, call, userGen, genLog, config, keys, bin, tasks, defaultGenerator>>

(***************************************************************************)
(* Bounds of the model.                                                    *)
(***************************************************************************)
MaxRows == 2       \* rows of every bitmap
MaxRectW == 3      \* widest copy rectangle, in pixels
MaxPattern == 2    \* buffer fill patterns 0..MaxPattern
MaxCalls == 3      \* top-level calls in one run of the cache specification
MaxEdits == 2      \* fields in which the two key records may differ

(***************************************************************************)
(* 32-bit words.  A word (an element of a Uint32Array, an operand of a     *)
(* JavaScript bitwise operator after ToInt32/ToUint32, a WebAssembly i32   *)
(* in memory) is the set of the positions of its 1 bits, bit 0 being the   *)
(* least significant; the bitwise operators are then exact on all 32 bits. *)
(* Coordinates, indices and addresses are integers.                        *)
(***************************************************************************)
WordBits == 32

BitPositions == 0..(WordBits - 1)

\* the integer of a word whose top bit is clear
RECURSIVE WordToNat(_)
WordToNat(w) ==
    IF w = {} THEN 0
    ELSE LET b == CHOOSE c \in w : TRUE IN 2 ^ b + WordToNat(w \ {b})

\* (word >>> bitPos) & 1
JsBit(word, bitPos) == IF (bitPos % WordBits) \in word THEN 1 ELSE 0
\* word | (1 << bitPos)
JsSetBit(word, bitPos) == word \cup {bitPos % WordBits}
\* word & ~(1 << bitPos)
JsClearBit(word, bitPos) == word \ {bitPos % WordBits}

\* Math.ceil(w / 32) and Math.floor(x / 32) on non-negative integers
CeilDiv32(w) == (w + WordBits - 1) \div WordBits
FloorDiv32(x) == x \div WordBits

(***************************************************************************)
(* Uint32Array element access: a read outside the array is undefined,      *)
(* which the bitwise operators turn into 0; a write outside is dropped.     *)
(***************************************************************************)
BufGet(buf, i) == IF i >= 0 /\ i < Len(buf) THEN buf[i + 1] ELSE {}

BufSet(buf, i, v) ==
    IF i >= 0 /\ i < Len(buf) THEN [buf EXCEPT ![i + 1] = v]
    ELSE buf

(***************************************************************************)
(* The arguments of one transfer.                                          *)
(***************************************************************************)
Args(sw, sh, sx, sy, dw, dx, dy, w, h) ==
    [srcWidth |-> sw, srcHeight |-> sh, srcX |-> sx, srcY |-> sy,
     dstWidth |-> dw, dstX |-> dx, dstY |-> dy, width |-> w, height |-> h]

(***************************************************************************)
(* The reference scan.  h is the heap, s and d the ids of the source and   *)
(* destination buffers (the same id when the caller passes one array for   *)
(* both).                                                                  *)
(***************************************************************************)
referencePixelFlipped(h, s, d, a, x, y) ==
    LET srcXPos == a.srcX + x
        dstXPos == a.dstX + x
        srcElementIndex == FloorDiv32(srcXPos) + (a.srcY + y) * CeilDiv32(a.srcWidth)
        dstElementIndex == FloorDiv32(dstXPos) + (a.dstY + y) * CeilDiv32(a.dstWidth)
        srcBit == JsBit(BufGet(h[s], srcElementIndex), srcXPos % WordBits)
        cur == BufGet(h[d], dstElementIndex)
    IN  IF srcBit = 1
        THEN [h EXCEPT ![d] = BufSet(@, dstElementIndex,
                                     JsClearBit(cur, dstXPos % WordBits))]
        ELSE [h EXCEPT ![d] = BufSet(@, dstElementIndex,
                                     JsSetBit(cur, dstXPos % WordBits))]

referencePixel(h, s, d, a, x, y) ==
    LET srcWidthInUint32 == CeilDiv32(a.srcWidth)
        dstWidthInUint32 == CeilDiv32(a.dstWidth)
        srcYPos == a.srcY + y
        dstYPos == a.dstY + y
        srcXPos == a.srcX + x
        dstXPos == a.dstX + x
        srcElementIndex == FloorDiv32(srcXPos) + srcYPos * srcWidthInUint32
        dstElementIndex == FloorDiv32(dstXPos) + dstYPos * dstWidthInUint32
        srcBitPos == srcXPos % WordBits
        dstBitPos == dstXPos % WordBits
        srcBit == JsBit(BufGet(h[s], srcElementIndex), srcBitPos)
        cur == BufGet(h[d], dstElementIndex)
    IN  IF srcBit = 1
        THEN [h EXCEPT ![d] = BufSet(@, dstElementIndex,
                                     JsSetBit(cur, dstBitPos))]
        ELSE [h EXCEPT ![d] = BufSet(@, dstElementIndex,
                                     JsClearBit(cur, dstBitPos))]

\* for (let x = 0; x < width; x++): a pixel that already holds the source
\* bit leaves the heap as it is
RECURSIVE referenceRow(_, _, _, _, _, _)
referenceRow(h, s, d, a, x, y) ==
    IF x < a.width
    THEN LET written == referencePixel(h, s, d, a, x, y)
         IN  IF written = h
             THEN referenceRow(h, s, d, a, x + 1, y)
             ELSE referenceRow(written, s, d, a, x + 1, y)
    ELSE h

RECURSIVE referenceRows(_, _, _, _, _)
referenceRows(h, s, d, a, y) ==
    IF y < a.height
    THEN LET written == referenceRow(h, s, d, a, 0, y)
         IN  IF written = h
             THEN referenceRows(h, s, d, a, y + 1)
             ELSE referenceRows(written, s, d, a, y + 1)
    ELSE h

referenceBitBLT(h, s, d, a) == referenceRows(h, s, d, a, 0)

(***************************************************************************)
(* Parameter records of the generators.  A dimension the caller froze is   *)
(* <<v>>, a runtime-variable (undefined) one is << >>.  A flag is TRUE     *)
(* when the property is truthy.                                            *)
(***************************************************************************)
Frozen(v) == v # << >>
Val(v) == v[1]

DimNames == <<"srcWidth", "srcHeight", "dstWidth", "srcX", "srcY",
              "dstX", "dstY", "width", "height">>

CompilerFlags(ul, ic, oa, an) ==
    [unrollLoops |-> ul, inlineConstants |-> ic, optimizeAlignedCopy |-> oa,
     analyzeOperations |-> an]

\* { srcWidth, srcHeight, srcX, ..., height, ...this.options } of execute.
ExecuteParams(a, options) ==
    [srcWidth |-> <<a.srcWidth>>, srcHeight |-> <<a.srcHeight>>,
     dstWidth |-> <<a.dstWidth>>, srcX |-> <<a.srcX>>, srcY |-> <<a.srcY>>,
     dstX |-> <<a.dstX>>, dstY |-> <<a.dstY>>, width |-> <<a.width>>,
     height |-> <<a.height>>,
     unrollLoops |-> options.unrollLoops,
     inlineConstants |-> options.inlineConstants,
     optimizeAlignedCopy |-> options.optimizeAlignedCopy,
     useSIMD |-> FALSE]

(***************************************************************************)
(* Template literals: `${n}` of a non-negative integer is its decimal      *)
(* numeral.                                                                *)
(***************************************************************************)
Digit(n) == <<"0", "1", "2", "3", "4", "5", "6", "7", "8", "9">>[n + 1]

RECURSIVE NumToString(_)
NumToString(n) ==
    IF n < 10 THEN Digit(n)
    ELSE NumToString(n \div 10) \o Digit(n % 10)

\* keyParts.join("_")
RECURSIVE Join(_)
Join(parts) ==
    IF parts = << >> THEN ""
    ELSE IF Len(parts) = 1 THEN parts[1]
    ELSE parts[1] \o "_" \o Join(Tail(parts))

KeyTags == <<"sw", "sh", "dw", "sx", "sy", "dx", "dy", "w", "h">>

RECURSIVE DimParts(_, _)
DimParts(params, i) ==
    IF i > Len(DimNames) THEN << >>
    ELSE (IF Frozen(params[DimNames[i]])
          THEN <<KeyTags[i] \o NumToString(Val(params[DimNames[i]]))>>
          ELSE << >>)
         \o DimParts(params, i + 1)

FlagPart(on, tag) == IF on THEN <<tag>> ELSE << >>

\* JavaScriptGenerator.getCacheKey.  "js_" followed by anything is truthy,
\* so the "js_default" alternative is never taken.
JsGetCacheKeyNoInline(params) ==
    "js_" \o Join(DimParts(params, 1)
                  \o FlagPart(params.unrollLoops, "ul")
                  \o FlagPart(params.optimizeAlignedCopy, "oa"))

JsGetCacheKey(params) ==
    "js_" \o Join(DimParts(params, 1)
                  \o FlagPart(params.unrollLoops, "ul")
                  \o FlagPart(params.inlineConstants, "ic")
                  \o FlagPart(params.optimizeAlignedCopy, "oa"))

\* WASMGenerator.getCacheKey.
WasmGetCacheKey(params) ==
    "wasm_" \o Join(DimParts(params, 1)
                    \o FlagPart(params.unrollLoops, "ul")
                    \o FlagPart(params.optimizeAlignedCopy, "oa")
                    \o FlagPart(params.useSIMD, "simd"))

(***************************************************************************)
(* JavaScriptGenerator.analyzeOperation: returns the analysis and, as the   *)
(* code does, sets flags on the parameter record it was given.              *)
(***************************************************************************)
JsAnalyzeOperation(params) ==
    LET known == Frozen(params.width) /\ Frozen(params.height)
        small == known /\ Val(params.width) * Val(params.height) <= 64
        aligned == known
                   /\ Val(params.width) % WordBits = 0
                   /\ (~Frozen(params.srcX) \/ Val(params.srcX) % WordBits = 0)
                   /\ (~Frozen(params.dstX) \/ Val(params.dstX) % WordBits = 0)
    IN  [canOptimize |-> small \/ aligned,
         optimizations |-> (IF small THEN <<"unroll-loops">> ELSE << >>)
                           \o (IF aligned THEN <<"word-aligned">> ELSE << >>),
         params |-> [params EXCEPT
                        !.unrollLoops = IF small THEN TRUE ELSE @,
                        !.optimizeAlignedCopy = IF aligned THEN TRUE ELSE @]]

(***************************************************************************)
(* The routine the textual generator emits for the compile-time record     *)
(* opts (generate and addPixelCopyCode), run on run-time arguments a.      *)
(***************************************************************************)
\* inlineConstants defaults to true in generate when no record sets it; the
\* records of this model always set it.
Inlined(opts, name) == opts.inlineConstants /\ Frozen(opts[name])

addPixelCopyCodeStaleStride(h, s, d, opts, a, x, srcYPos, dstYPos) ==
    LET srcXPos == IF Inlined(opts, "srcX") THEN Val(opts.srcX) + x ELSE a.srcX + x
        dstXPos == IF Inlined(opts, "dstX") THEN Val(opts.dstX) + x ELSE a.dstX + x
        srcElementIndex == FloorDiv32(srcXPos) + srcYPos * CeilDiv32(a.srcWidth)
        dstElementIndex == FloorDiv32(dstXPos) + dstYPos
        srcBit == JsBit(BufGet(h[s], srcElementIndex), srcXPos % WordBits)
        cur == BufGet(h[d], dstElementIndex)
    IN  IF srcBit = 1
        THEN [h EXCEPT ![d] = BufSet(@, dstElementIndex,
                                     JsSetBit(cur, dstXPos % WordBits))]
        ELSE [h EXCEPT ![d] = BufSet(@, dstElementIndex,
                                     JsClearBit(cur, dstXPos % WordBits))]

addPixelCopyCode(h, s, d, opts, a, x, srcYPos, dstYPos) ==
    LET srcWidthInUint32 == IF Inlined(opts, "srcWidth")
                            THEN CeilDiv32(Val(opts.srcWidth))
                            ELSE CeilDiv32(a.srcWidth)
        dstWidthInUint32 == IF Inlined(opts, "dstWidth")
                            THEN CeilDiv32(Val(opts.dstWidth))
                            ELSE CeilDiv32(a.dstWidth)
        srcXPos == IF Inlined(opts, "srcX") THEN Val(opts.srcX) + x ELSE a.srcX + x
        dstXPos == IF Inlined(opts, "dstX") THEN Val(opts.dstX) + x ELSE a.dstX + x
        srcElementIndex == FloorDiv32(srcXPos) + srcYPos * srcWidthInUint32
        dstElementIndex == FloorDiv32(dstXPos) + dstYPos * dstWidthInUint32
        srcBitPos == srcXPos % WordBits
        dstBitPos == dstXPos % WordBits
        srcBit == JsBit(BufGet(h[s], srcElementIndex), srcBitPos)
        cur == BufGet(h[d], dstElementIndex)
    IN  IF srcBit = 1
        THEN [h EXCEPT ![d] = BufSet(@, dstElementIndex,
                                     JsSetBit(cur, dstBitPos))]
        ELSE [h EXCEPT ![d] = BufSet(@, dstElementIndex,
                                     JsClearBit(cur, dstBitPos))]

RECURSIVE generatedRow(_, _, _, _, _, _, _, _, _)
generatedRowOneMore(h, s, d, opts, a, x, xEnd, srcYPos, dstYPos) ==
    IF x <= xEnd
    THEN LET written == addPixelCopyCode(h, s, d, opts, a, x, srcYPos, dstYPos)
         IN  IF written = h
             THEN generatedRow(h, s, d, opts, a, x + 1, xEnd, srcYPos, dstYPos)
             ELSE generatedRow(written, s, d, opts, a, x + 1, xEnd, srcYPos, dstYPos)
    ELSE h

generatedRow(h, s, d, opts, a, x, xEnd, srcYPos, dstYPos) ==
    IF x < xEnd
    THEN LET written == addPixelCopyCode(h, s, d, opts, a, x, srcYPos, dstYPos)
         IN  IF written = h
             THEN generatedRow(h, s, d, opts, a, x + 1, xEnd, srcYPos, dstYPos)
             ELSE generatedRow(written, s, d, opts, a, x + 1, xEnd, srcYPos, dstYPos)
    ELSE h

RECURSIVE generatedRows(_, _, _, _, _, _, _, _)
generatedRows(h, s, d, opts, a, y, yEnd, xEnd) ==
    IF y < yEnd
    THEN LET srcYPos == IF Inlined(opts, "srcY") /\ opts.unrollLoops /\ Frozen(opts.height)
                        THEN Val(opts.srcY) + y ELSE a.srcY + y
             dstYPos == IF Inlined(opts, "dstY") /\ opts.unrollLoops /\ Frozen(opts.height)
                        THEN Val(opts.dstY) + y ELSE a.dstY + y
             written == generatedRow(h, s, d, opts, a, 0, xEnd, srcYPos, dstYPos)
         IN  IF written = h
             THEN generatedRows(h, s, d, opts, a, y + 1, yEnd, xEnd)
             ELSE generatedRows(written, s, d, opts, a, y + 1, yEnd, xEnd)
    ELSE h

\* The emitted function applied to (h[s], ..., h[d], ...): the heap it
\* leaves and the error it throws.  With unrolled rows but a run-time
\* column loop the emitted pixel code names srcYPos, which that text never
\* declares.
generatedBitBLT(opts, h, s, d, a) ==
    IF opts.unrollLoops /\ Frozen(opts.height)
    THEN IF Frozen(opts.width)
         THEN [heap |-> generatedRows(h, s, d, opts, a, 0, Val(opts.height),
                                      Val(opts.width)),
               error |-> "none"]
         ELSE IF Val(opts.height) > 0 /\ a.width > 0
              THEN [heap |-> h, error |-> "ReferenceError"]
              ELSE [heap |-> h, error |-> "none"]
    ELSE [heap |-> generatedRows(h, s, d, opts, a, 0, a.height, a.width),
          error |-> "none"]

(***************************************************************************)
(* WebAssembly i32 arithmetic and linear memory.  A memory is the sequence *)
(* of its 32-bit little-endian words that were ever written (the words     *)
(* after it are zero) together with its size in bytes; an access that      *)
(* reaches past the size traps.  Addresses are byte addresses, and an      *)
(* i32.load/i32.store at an address that is not a multiple of 4 straddles  *)
(* two words (the alignment immediate is only a hint).                     *)
(***************************************************************************)
PageBytes == 65536

\* i32 arithmetic on addresses, indices and counters.  The operands of
\* the model stay far below 2^31, where add, mul, shl, shr_u and lt_s are
\* the operations on integers.
I32Add(a, b) == a + b
I32Mul(a, b) == a * b
I32Shl(a, n) == a * (2 ^ (n % WordBits))
I32ShrU(a, n) == IF n % WordBits = WordBits - 1 THEN 0 ELSE a \div (2 ^ (n % WordBits))
\* a & mask for a mask 2^k - 1 (the emitted masks are 31 and 1)
I32And(a, mask) == a % (mask + 1)
I32LtS(a, b) == a < b

MemWord(words, i) == IF i < Len(words) THEN words[i + 1] ELSE {}

MemSetWord(words, i, v) ==
    IF i < Len(words) THEN [words EXCEPT ![i + 1] = v]
    ELSE words \o [k \in 1..(i - Len(words)) |-> {}] \o <<v>>

MemTraps(mem, addr) == addr + 4 > mem.bytes

I32Load(mem, addr) ==
    LET i == addr \div 4
        sh == 8 * (addr % 4)
    IN  {b - sh : b \in {c \in MemWord(mem.words, i) : c >= sh}}
        \cup {b + WordBits - sh : b \in {c \in MemWord(mem.words, i + 1) : c < sh}}

I32Store(mem, addr, v) ==
    LET i == addr \div 4
        sh == 8 * (addr % 4)
        lo == MemWord(mem.words, i)
        hi == MemWord(mem.words, i + 1)
    IN  IF sh = 0 THEN [mem EXCEPT !.words = MemSetWord(@, i, v)]
        ELSE [mem EXCEPT !.words =
                 MemSetWord(
                     MemSetWord(@, i,
                                {c \in lo : c < sh}
                                \cup {b + sh : b \in {c \in v : c + sh < WordBits}}),
                     i + 1,
                     {c \in hi : c >= sh}
                     \cup {b + sh - WordBits : b \in {c \in v : c + sh >= WordBits}})]

\* new Uint32Array(memory.buffer).set(buffer, offset), offset counted in words
MemStage(mem, buf, offset) ==
    LET old  == Len(mem.words)
        size == Len(buf)
        last == IF old > offset + size THEN old ELSE offset + size
    IN  [mem EXCEPT !.words =
            [k \in 1..last |->
                IF k > offset /\ k <= offset + size THEN buf[k - offset]
                ELSE IF k <= old THEN @[k]
                ELSE {}]]

\* the words offset .. offset + n - 1 of the memory view
MemRead(mem, offset, n) ==
    LET size == Len(mem.words)
    IN  [k \in 1..n |-> IF offset + k <= size THEN mem.words[offset + k] ELSE {}]

NewMemory(pages) == [words |-> << >>, bytes |-> pages * PageBytes]

(***************************************************************************)
(* The body generateBitBLTFunctionBody emits, executed: one iteration of   *)
(* the inner loop follows the emitted opcodes in order, with the operand   *)
(* stack they leave.  p is the record of the eleven i32 parameters; the    *)
(* result is the memory and whether the call trapped.                      *)
(***************************************************************************)
WasmParams(srcPtr, dstPtr, a) ==
    [srcBuffer |-> srcPtr, srcWidth |-> a.srcWidth,
     srcHeight |-> a.srcHeight, srcX |-> a.srcX, srcY |-> a.srcY,
     dstBuffer |-> dstPtr, dstWidth |-> a.dstWidth,
     dstX |-> a.dstX, dstY |-> a.dstY,
     width |-> a.width, height |-> a.height]

\* the value the emitted opcodes of the source bit extraction leave in
\* local 17 (srcBit)
wasmSrcBit(mem, p, x, srcYPos) ==
    LET srcWidthInUint32 == I32ShrU(I32Add(p.srcWidth, 31), 5)
        \* (srcX + x) >> 5, + srcYPos * srcWidthInUint32, + srcBuffer:
        \* stays on the stack below the bit position
        srcElem == I32Add(I32Add(I32ShrU(I32Add(p.srcX, x), 5),
                                 I32Mul(srcYPos, srcWidthInUint32)),
                          p.srcBuffer)
        \* (srcX + x) & 31 is on top of the stack when i32.load runs, so
        \* the load takes it as the byte address
        srcBitPos == I32And(I32Add(p.srcX, x), 31)
        loaded == I32Load(mem, srcBitPos)
        \* i32.shr_u of the two values left: srcElem >>> loaded, the shift
        \* count being the low five bits of the loaded word
    IN  I32And(I32ShrU(srcElem, WordToNat(loaded \cap (0..4))), 1)

\* the address on the stack at the i32.load and at the i32.store of the
\* destination word:
\* dstBuffer + ((((dstX + x) >> 5) + dstYPos * dstWidthInUint32) << 2)
wasmDstAddr(p, x, dstYPos) ==
    LET dstWidthInUint32 == I32ShrU(I32Add(p.dstWidth, 31), 5)
    IN  I32Add(p.dstBuffer,
               I32Shl(I32Add(I32ShrU(I32Add(p.dstX, x), 5),
                             I32Mul(dstYPos, dstWidthInUint32)), 2))

wasmPixel(mem, p, x, srcYPos, dstYPos) ==
    LET srcBitPos == I32And(I32Add(p.srcX, x), 31)
        srcBit == wasmSrcBit(mem, p, x, srcYPos)
        dstBitPos == I32And(I32Add(p.dstX, x), 31)
        dstAddr == wasmDstAddr(p, x, dstYPos)
        temp == I32Load(mem, dstAddr)
        mask == {dstBitPos}
        result == IF srcBit = 1 THEN temp \cup mask
                  ELSE temp \cap (BitPositions \ mask)
    IN  IF MemTraps(mem, srcBitPos) \/ MemTraps(mem, dstAddr)
        THEN [mem |-> mem, trap |-> TRUE]
        ELSE [mem |-> I32Store(mem, dstAddr, result), trap |-> FALSE]

RECURSIVE wasmRow(_, _, _, _, _)
wasmRow(r, p, x, srcYPos, dstYPos) ==
    IF r.trap \/ ~I32LtS(x, p.width) THEN r
    ELSE wasmRow(wasmPixel(r.mem, p, x, srcYPos, dstYPos), p, I32Add(x, 1),
                 srcYPos, dstYPos)

RECURSIVE wasmRows(_, _, _)
wasmRows(r, p, y) ==
    IF r.trap \/ ~I32LtS(y, p.height) THEN r
    ELSE wasmRows(wasmRow(r, p, 0, I32Add(p.srcY, y), I32Add(p.dstY, y)),
                  p, I32Add(y, 1))

wasmBitBLT(mem, p) == wasmRows([mem |-> mem, trap |-> FALSE], p, 0)

(***************************************************************************)
(* Generator type names are strings, modelled as sequences of characters   *)
(* so that String.prototype.toLowerCase is computed character by           *)
(* character.                                                              *)
(***************************************************************************)
UpperChars == <<"A", "B", "C", "D", "E", "F", "G", "H", "I", "J", "K", "L", "M",
                "N", "O", "P", "Q", "R", "S", "T", "U", "V", "W", "X", "Y", "Z">>
LowerChars == <<"a", "b", "c", "d", "e", "f", "g", "h", "i", "j", "k", "l", "m",
                "n", "o", "p", "q", "r", "s", "t", "u", "v", "w", "x", "y", "z">>

toLowerCaseChar(c) ==
    IF \E i \in 1..Len(UpperChars) : UpperChars[i] = c
    THEN LowerChars[CHOOSE i \in 1..Len(UpperChars) : UpperChars[i] = c]
    ELSE c

toLowerCaseIdentity(str) == str

toLowerCase(str) == [i \in 1..Len(str) |-> toLowerCaseChar(str[i])]

NameJs == <<"j", "s">>
NameJavascript == <<"j", "a", "v", "a", "s", "c", "r", "i", "p", "t">>
NameWasm == <<"w", "a", "s", "m">>
NameWebassembly == <<"w", "e", "b", "a", "s", "s", "e", "m", "b", "l", "y">>
NameZeroCopyWasm == <<"z", "e", "r", "o", "-", "c", "o", "p", "y", "-", "w", "a", "s", "m">>
NameZerocopyWasm == <<"z", "e", "r", "o", "c", "o", "p", "y", "-", "w", "a", "s", "m">>
NameZerocopy == <<"z", "e", "r", "o", "c", "o", "p", "y">>

\* The generator object a constructor returns: its class, this.options and
\* its empty compiledFunctions / compiledModules map.
NoCache == [k \in {} |-> << >>]
NewGenerator(class, options) ==
    [class |-> class, options |-> options, cache |-> NoCache]
NoGenerator == NewGenerator("none", << >>)

\* GeneratorFactory.createGenerator
createGenerator(type, options) ==
    LET generatorType == toLowerCase(type)
    IN  IF generatorType \in {NameJs, NameJavascript}
        THEN [error |-> "none",
              generator |-> NewGenerator("JavaScriptGenerator", options)]
        ELSE IF generatorType \in {NameWasm, NameWebassembly}
        THEN [error |-> "none",
              generator |-> NewGenerator("WASMGenerator", options)]
        ELSE IF generatorType \in {NameZeroCopyWasm, NameZerocopyWasm, NameZerocopy}
        THEN [error |-> "none",
              generator |-> NewGenerator("ZeroCopyWASMGenerator", options)]
        ELSE [error |-> "Unknown generator type", generator |-> NoGenerator]

\* generator.isAsync && generator.isAsync()
isAsyncNever(generator) == FALSE

isAsync(generator) == generator.class # "JavaScriptGenerator"

(***************************************************************************)
(* The comparison helpers of the dispatcher.                               *)
(***************************************************************************)
getPixel(buffer, width, x, y) ==
    LET widthInUint32 == CeilDiv32(width)
        elementIndex == FloorDiv32(x) + y * widthInUint32
        bitPos == x % WordBits
    IN  JsBit(BufGet(buffer, elementIndex), bitPos)

buffersAreEqual(buffer1, buffer2) ==
    /\ Len(buffer1) = Len(buffer2)
    /\ \A i \in 1..Len(buffer1) : buffer1[i] = buffer2[i]

\* Math.ceil((dstBuffer.length * 32) / dstWidth)
CeilDiv(n, m) == (n + m - 1) \div m

\* The row-major scan of findFirstDifference: the first row holding a
\* differing pixel and the first differing pixel of that row; << >> is
\* null.
findFirstDifference(buffer1, buffer2, width, height) ==
    LET differs(x, y) == getPixel(buffer1, width, x, y) # getPixel(buffer2, width, x, y)
        rows == {y \in 0..(height - 1) : \E x \in 0..(width - 1) : differs(x, y)}
        y0 == CHOOSE y \in rows : \A z \in rows : y <= z
        cols == {x \in 0..(width - 1) : differs(x, y0)}
        x0 == CHOOSE x \in cols : \A z \in cols : x <= z
    IN  IF rows = {} THEN << >>
        ELSE <<[x |-> x0, y |-> y0,
                expected |-> getPixel(buffer1, width, x0, y0),
                actual |-> getPixel(buffer2, width, x0, y0)]>>

(***************************************************************************)
(* The execute methods of the generators.                                  *)
(***************************************************************************)
Bump(log, key) ==
    IF key \in DOMAIN log THEN [log EXCEPT ![key] = @ + 1]
    ELSE [k \in DOMAIN log \cup {key} |-> IF k = key THEN 1 ELSE log[k]]

CachePut(cache, key, artifact) ==
    [k \in DOMAIN cache \cup {key} |-> IF k = key THEN artifact ELSE cache[k]]

\* JavaScriptGenerator.execute with compile: the parameter record, the
\* optional analysis, the lookup in compiledFunctions, generate on a miss,
\* and the call of the compiled function.
JsExecute(generator, log, h, s, d, a) ==
    LET params0 == ExecuteParams(a, generator.options)
        params == IF generator.options.analyzeOperations
                  THEN JsAnalyzeOperation(params0).params
                  ELSE params0
        cacheKey == JsGetCacheKey(params)
        hit == cacheKey \in DOMAIN generator.cache
        compiled == IF hit THEN generator.cache[cacheKey] ELSE params
        run == generatedBitBLT(compiled, h, s, d, a)
    IN  [heap |-> run.heap, error |-> run.error, key |-> cacheKey,
         generator |-> [generator EXCEPT
                           !.cache = IF hit THEN @ ELSE CachePut(@, cacheKey, params)],
         log |-> IF hit THEN log ELSE Bump(log, cacheKey)]

\* The synchronous prefix of WASMGenerator.execute and of
\* ZeroCopyWASMGenerator.execute: the parameter record and, on every path,
\* this.generate(params, shared) before the first await.
WasmExecuteKey(generator, a) == WasmGetCacheKey(ExecuteParams(a, generator.options))

\* The memory pages the execute paths ask for: 1 in executeWithCopy,
\* max(ceil(srcBytes / 65536), ceil(dstBytes / 65536)) + 1 on the shared
\* paths.
SharedPages(srcBuffer, dstBuffer) ==
    LET sp == CeilDiv(4 * Len(srcBuffer), PageBytes)
        dp == CeilDiv(4 * Len(dstBuffer), PageBytes)
    IN  (IF sp > dp THEN sp ELSE dp) + 1

\* executeWithCopy / executeZeroCopy after the await: compile (the cached
\* function, bound to the memory of the call that compiled it, on a hit),
\* staging into this call's memory, the call, and the copy back from this
\* call's memory.
WasmExecuteStaged(generator, key, pages, h, s, d, a) ==
    LET srcBufferPtr == 0
        dstBufferPtr == Len(h[s])
        memory == NewMemory(pages)
        fits == 4 * (Len(h[s]) + Len(h[d])) <= memory.bytes
        staged == MemStage(MemStage(memory, h[s], srcBufferPtr), h[d], dstBufferPtr)
        hit == key \in DOMAIN generator.cache
        bound == IF hit THEN generator.cache[key] ELSE staged
        run == wasmBitBLT(bound, WasmParams(srcBufferPtr, dstBufferPtr, a))
        view == IF hit THEN staged ELSE run.mem
    IN  IF ~fits
        THEN [heap |-> h, error |-> "RangeError",
              generator |-> [generator EXCEPT
                                !.cache = IF hit THEN @ ELSE CachePut(@, key, memory)]]
        ELSE [heap |-> IF run.trap THEN h
                       ELSE [h EXCEPT ![d] = MemRead(view, dstBufferPtr, Len(h[d]))],
              error |-> IF run.trap THEN "RuntimeError" ELSE "none",
              generator |-> [generator EXCEPT !.cache = CachePut(@, key, run.mem)]]

\* ZeroCopyWASMGenerator.executeWithSharedBuffers: a new shared memory that
\* nothing is staged into, pointers byteOffset / 4 of the two views (0 for
\* a view at the start of its buffer), and no copy back.  The shared
\* copies made for ordinary buffers are written back unchanged.
WasmExecuteShared(generator, key, h, s, d, a) ==
    LET memory == NewMemory(SharedPages(h[s], h[d]))
        hit == key \in DOMAIN generator.cache
        bound == IF hit THEN generator.cache[key] ELSE memory
        run == wasmBitBLT(bound, WasmParams(0, 0, a))
    IN  [heap |-> h,
         error |-> IF run.trap THEN "RuntimeError" ELSE "none",
         generator |-> [generator EXCEPT !.cache = CachePut(@, key, run.mem)]]

\* env.sab: SharedArrayBuffer and Atomics exist; env.shared: the caller's
\* arrays are views of SharedArrayBuffers.
WasmExecute(generator, key, env, h, s, d, a) ==
    IF generator.class = "ZeroCopyWASMGenerator" /\ env.sab
    THEN WasmExecuteShared(generator, key, h, s, d, a)
    ELSE IF env.sab /\ env.shared
    THEN WasmExecuteStaged(generator, key, SharedPages(h[s], h[d]), h, s, d, a)
    ELSE WasmExecuteStaged(generator, key, 1, h, s, d, a)

(***************************************************************************)
(* The dispatcher's verification.                                          *)
(***************************************************************************)
\* verifyBuffer: a copy of the destination with the reference applied
WithScratch(h, d) ==
    [b \in DOMAIN h \cup {"scratch"} |-> IF b = "scratch" THEN h[d] ELSE h[b]]

OracleScratch(h, s, d, a) == referenceBitBLT(WithScratch(h, d), s, "scratch", a)["scratch"]

verifyResults(dstBuffer, verifyBuffer, dstWidth) ==
    IF buffersAreEqual(dstBuffer, verifyBuffer)
    THEN [outcome |-> "ok", diff |-> << >>]
    ELSE LET diff == findFirstDifference(verifyBuffer, dstBuffer, dstWidth,
                                         CeilDiv(Len(dstBuffer) * WordBits, dstWidth))
         IN  IF diff = << >>
             THEN [outcome |-> "TypeError", diff |-> << >>]
             ELSE [outcome |-> "VerificationFailed", diff |-> diff]

(***************************************************************************)
(* The state machine.                                                      *)
(***************************************************************************)
\* the config object of bitblt.js as the module loads it
DefaultConfig ==
    [verifyResults |-> TRUE, useCompiled |-> TRUE,
     generatorType |-> NameJavascript,
     compiler |-> CompilerFlags(FALSE, TRUE, TRUE, FALSE)]

\* let defaultGenerator = GeneratorFactory.createGenerator(config.generatorType,
\* config.compiler) at module load
DefaultGenerator ==
    createGenerator(DefaultConfig.generatorType, DefaultConfig.compiler).generator

\* An options argument: each field is << >> when the caller leaves it out
\* and <<v>> when it is given; generator is "user" when the caller passes
\* the generator instance it holds.
Options(verify, compiled, type, compiler, generator) ==
    [verifyResults |-> verify, useCompiled |-> compiled, generatorType |-> type,
     compiler |-> compiler, generator |-> generator]

NoOptions == Options(<< >>, << >>, << >>, << >>, "none")

\* { ...config, ...options }
MergeOptions(cfg, o) ==
    [verifyResults |-> IF o.verifyResults # << >> THEN o.verifyResults[1]
                       ELSE cfg.verifyResults,
     useCompiled |-> IF o.useCompiled # << >> THEN o.useCompiled[1]
                     ELSE cfg.useCompiled,
     generatorType |-> IF o.generatorType # << >> THEN o.generatorType[1]
                       ELSE cfg.generatorType,
     compiler |-> IF o.compiler # << >> THEN o.compiler[1] ELSE cfg.compiler,
     generator |-> o.generator]

\* Buffer contents the callers of the model create:
\* pattern 0 is 0xAAAAAAAA and 0x55555555 in alternate words, 1 is
\* 0x0F0F0F0F and 0xF0F0F0F0, 2 all ones, 3 all zeros
Pattern(p, i) ==
    IF p = 0 THEN {b \in BitPositions : (b + i) % 2 = 1}
    ELSE IF p = 1 THEN {b \in BitPositions : ((b \div 4) + i) % 2 = 0}
    ELSE IF p = 2 THEN BitPositions
    ELSE IF p = 3 THEN {}
    ELSE {b \in BitPositions : ((b \div p) + (b % 3) + i) % 2 = 0}

NewBuffer(p, n) == [i \in 1..n |-> Pattern(p, i - 1)]

BitmapWidths == {8, 40}
XPositions == {0, 5, 30}

BufferLength(w) == CeilDiv32(w) * MaxRows

\* the operations that are valid on the buffers h[s] and h[d]: both
\* bitmaps fill their buffers and both rectangles lie inside their
\* bitmaps, at the top or at the bottom of them
ValidArgs(h, s, d) ==
    { Args(t[1], MaxRows, t[3], t[5], t[2], t[4], t[6], t[7], t[8]) :
        t \in { u \in BitmapWidths \X BitmapWidths \X XPositions \X XPositions
                      \X (0..MaxRows) \X (0..MaxRows)
                      \X (0..MaxRectW) \X (0..MaxRows) :
                  /\ BufferLength(u[1]) = Len(h[s])
                  /\ BufferLength(u[2]) = Len(h[d])
                  /\ u[3] + u[7] <= u[1]
                  /\ u[4] + u[7] <= u[2]
                  /\ u[5] \in {0, MaxRows - u[8]}
                  /\ u[6] \in {0, MaxRows - u[8]} } }

NoArgs == Args(0, 0, 0, 0, 0, 0, 0, 0, 0)

Env(sab, shared) == [sab |-> sab, shared |-> shared]

IdleCall(h, env) ==
    [pc |-> "idle", kind |-> "none", s |-> "src", d |-> "dst", args |-> NoArgs,
     opts |-> MergeOptions(DefaultConfig, NoOptions), pre |-> h, ret |-> "none",
     outcome |-> "none", diff |-> << >>, scratch |-> << >>,
     generator |-> NoGenerator, key |-> "", type |-> << >>, env |-> env,
     n |-> 0]

NoLog == [k \in {} |-> 0]
NoKeys == [p |-> << >>, q |-> << >>, js |-> << >>, wasm |-> << >>]

\* no encoder has been called
NoBin == [op |-> "none"]

InitBuffers(p, sw, dw) ==
    [src |-> NewBuffer(p, BufferLength(sw)),
     dst |-> NewBuffer((p + 1) % (MaxPattern + 1), BufferLength(dw))]

\* The state once the module is loaded and the caller has allocated and
\* filled its two buffers (new Uint32Array, or views of new
\* SharedArrayBuffers).
InitWith(buffers, envs) ==
    /\ heap \in buffers
    /\ call \in {IdleCall(heap, env) : env \in envs}
    /\ userGen = NoGenerator
    /\ genLog = NoLog
    /\ config = DefaultConfig
    /\ defaultGenerator = DefaultGenerator
    /\ keys = NoKeys
    /\ bin = NoBin
    /\ tasks = << >>

AllBuffers ==
    {InitBuffers(p, sw, dw) : p \in 0..MaxPattern, sw \in BitmapWidths,
                              dw \in BitmapWidths}

\* A direct call of the reference bitblt(srcBuffer, ..., height).
CallReference(s, d, a) ==
    /\ call.pc = "idle"
    /\ heap' = referenceBitBLT(heap, s, d, a)
    /\ call' = [call EXCEPT !.pc = "settled", !.kind = "reference", !.s = s,
                            !.d = d, !.args = a, !.pre = heap, !.ret = "value",
                            !.outcome = "ok", !.n = @ + 1]
    /\ UNCHANGED <<userGen, genLog, config, keys, bin, tasks, defaultGenerator>>

\* bitblt(srcBuffer, ..., height, options) of bitblt.js, up to its return:
\* the merge of the options, the reference-only path, the choice of the
\* generator, the oracle copy, generator.execute, and either the
\* verification at once or its registration on the promise.
Bitblt(s, d, a, o) ==
    LET opts == MergeOptions(config, o)
        generatorType == IF opts.generatorType # << >> THEN opts.generatorType
                         ELSE config.generatorType
        started == [call EXCEPT !.kind = "bitblt", !.s = s, !.d = d, !.args = a,
                                !.opts = opts, !.pre = heap, !.n = @ + 1,
                                !.type = generatorType]
        made == IF opts.generator = "user"
                THEN [error |-> "none", generator |-> userGen]
                ELSE createGenerator(generatorType, opts.compiler)
        generator == made.generator
        scratch == IF opts.verifyResults THEN OracleScratch(heap, s, d, a) ELSE << >>
    IN  /\ call.pc = "idle"
        /\ o.generator = "user" => userGen # NoGenerator
        /\ UNCHANGED <<config, keys, bin, tasks, defaultGenerator>>
        /\ IF ~opts.useCompiled
           THEN /\ heap' = referenceBitBLT(heap, s, d, a)
                /\ call' = [started EXCEPT !.pc = "settled", !.ret = "value",
                                           !.outcome = "ok"]
                /\ UNCHANGED <<userGen, genLog>>
           ELSE IF made.error # "none"
           THEN /\ call' = [started EXCEPT !.pc = "settled", !.ret = "throw",
                                           !.outcome = made.error]
                /\ UNCHANGED <<heap, userGen, genLog>>
           ELSE IF generator.class = "JavaScriptGenerator"
           THEN LET r == JsExecute(generator, genLog, heap, s, d, a)
                    v == IF r.error # "none"
                         THEN [outcome |-> r.error, diff |-> << >>]
                         ELSE IF isAsync(generator)
                         THEN [outcome |-> "TypeError", diff |-> << >>]
                         ELSE IF opts.verifyResults
                         THEN verifyResults(r.heap[d], scratch, a.dstWidth)
                         ELSE [outcome |-> "ok", diff |-> << >>]
                IN  /\ heap' = r.heap
                    /\ genLog' = r.log
                    /\ userGen' = IF opts.generator = "user" THEN r.generator
                                  ELSE userGen
                    /\ call' = [started EXCEPT
                                   !.pc = "settled",
                                   !.ret = IF v.outcome = "ok" THEN "value" ELSE "throw",
                                   !.outcome = v.outcome, !.diff = v.diff,
                                   !.scratch = scratch, !.generator = r.generator,
                                   !.key = r.key]
           ELSE LET key == WasmExecuteKey(generator, a)
                    v == IF isAsync(generator)
                         THEN [outcome |-> "none", diff |-> << >>]
                         ELSE IF opts.verifyResults
                         THEN verifyResults(heap[d], scratch, a.dstWidth)
                         ELSE [outcome |-> "ok", diff |-> << >>]
                IN  /\ genLog' = Bump(genLog, key)
                    /\ UNCHANGED <<heap, userGen>>
                    /\ call' = [started EXCEPT
                                   !.pc = "pending",
                                   !.ret = IF isAsync(generator) THEN "promise"
                                           ELSE IF v.outcome = "ok" THEN "value"
                                           ELSE "throw",
                                   !.outcome = v.outcome, !.diff = v.diff,
                                   !.scratch = scratch, !.generator = generator,
                                   !.key = key]

\* The continuation of the asynchronous execute after its await: compile,
\* staging, the call of the compiled function, the copy back; the promise
\* of execute resolves, or rejects with the error.
ExecuteResume ==
    /\ call.pc = "pending"
    /\ LET user == call.opts.generator = "user"
           generator == IF user THEN userGen ELSE call.generator
           r == WasmExecute(generator, call.key, call.env, heap, call.s, call.d,
                            call.args)
       IN  /\ heap' = r.heap
           /\ userGen' = IF user THEN r.generator ELSE userGen
           /\ call' = IF call.ret # "promise"
                      THEN [call EXCEPT !.pc = "settled", !.generator = r.generator]
                      ELSE IF r.error # "none"
                      THEN [call EXCEPT !.pc = "settled", !.outcome = r.error,
                                        !.generator = r.generator]
                      ELSE [call EXCEPT !.pc = "resolved",
                                        !.generator = r.generator]
    /\ UNCHANGED <<genLog, config, keys, bin, tasks, defaultGenerator>>

\* the reaction reading the configuration as it is when it runs
optsVerifyResultsFromConfig == config.verifyResults

\* opts.verifyResults as the reaction registered on the promise reads it:
\* opts is the merge made when bitblt was called
optsVerifyResults == call.opts.verifyResults

\* result.then(verifyResults) / result.then(handleResult): the reaction
\* that runs once the promise of execute has resolved.
ThenVerify ==
    /\ call.pc = "resolved"
    /\ LET v == IF optsVerifyResults
                THEN verifyResults(heap[call.d], call.scratch, call.args.dstWidth)
                ELSE [outcome |-> "ok", diff |-> << >>]
       IN  call' = [call EXCEPT !.pc = "settled", !.outcome = v.outcome,
                                !.diff = v.diff]
    /\ UNCHANGED <<heap, userGen, genLog, config, keys, bin, tasks, defaultGenerator>>

\* createGenerator(type, options) of bitblt.js: the factory with
\* { ...config.compiler, ...options }.
CreateGenerator(type, options) ==
    LET made == createGenerator(type, IF options # << >> THEN options[1]
                                      ELSE config.compiler)
    IN  /\ call.pc = "idle"
        /\ userGen' = IF made.error = "none" THEN made.generator ELSE userGen
        /\ call' = [call EXCEPT !.pc = "settled", !.kind = "createGenerator",
                                !.type = type, !.pre = heap,
                                !.ret = IF made.error = "none" THEN "value"
                                        ELSE "throw",
                                !.outcome = IF made.error = "none" THEN "ok"
                                            ELSE made.error,
                                !.generator = made.generator]
        /\ UNCHANGED <<heap, genLog, config, keys, bin, tasks, defaultGenerator>>

\* generator.clearCache() on the instance the caller holds
ClearCache ==
    /\ call.pc = "idle"
    /\ userGen # NoGenerator
    /\ userGen.cache # NoCache
    /\ userGen' = [userGen EXCEPT !.cache = NoCache]
    /\ genLog' = NoLog
    /\ UNCHANGED <<heap, call, config, keys, bin, tasks, defaultGenerator>>

\* The caller goes on to its next call on the same buffers.
Again ==
    /\ call.pc = "settled"
    /\ call.n < MaxCalls
    /\ call' = [IdleCall(heap, call.env) EXCEPT !.n = call.n]
    /\ UNCHANGED <<heap, userGen, genLog, config, keys, bin, tasks, defaultGenerator>>

(***************************************************************************)
(* SpecCopy: the reference scan and the textual back-end on every valid    *)
(* operation of the bounded space, on distinct buffers and on one buffer   *)
(* passed as source and destination.                                       *)
(***************************************************************************)
BufferPairs == {<<"src", "dst">>, <<"src", "src">>}

TextualOptions ==
    {NoOptions,
     Options(<<FALSE>>, << >>, <<NameJs>>, <<CompilerFlags(FALSE, TRUE, TRUE, TRUE)>>,
             "none")}
    \cup { Options(<<FALSE>>, << >>, <<NameJs>>,
                   <<CompilerFlags(ul, ic, TRUE, FALSE)>>, "none") :
             ul \in BOOLEAN, ic \in BOOLEAN }

InitCopy == InitWith(AllBuffers, {Env(TRUE, FALSE)})

ReferenceCopy ==
    /\ call.pc = "idle"
    /\ \E b \in BufferPairs : \E a \in ValidArgs(heap, b[1], b[2]) :
           CallReference(b[1], b[2], a)

TextualCopy ==
    /\ call.pc = "idle"
    /\ \E b \in BufferPairs : \E a \in ValidArgs(heap, b[1], b[2]) :
           \E o \in TextualOptions : Bitblt(b[1], b[2], a, o)

NextCopy == ReferenceCopy \/ TextualCopy

SpecCopy == InitCopy /\ [][NextCopy]_vars

(***************************************************************************)
(* Properties of SpecCopy.                                                 *)
(***************************************************************************)
\* bit b of word i of a buffer, and the pixel that bit holds in a bitmap
\* of the given width: column (i mod stride) * 32 + b of row i div stride
BitAt(buf, i, b) == b \in buf[i + 1]
ColumnOf(width, i, b) == (i % CeilDiv32(width)) * WordBits + b
RowOf(width, i) == i \div CeilDiv32(width)

InRectangle(a, i, b) ==
    /\ ColumnOf(a.dstWidth, i, b) >= a.dstX
    /\ ColumnOf(a.dstWidth, i, b) < a.dstX + a.width
    /\ RowOf(a.dstWidth, i) >= a.dstY
    /\ RowOf(a.dstWidth, i) < a.dstY + a.height

\* the bit of the source bitmap, before the call, that the copy brings to
\* bit b of word i of the destination
SourceBitFor(pre, s, a, i, b) ==
    LET x == a.srcX + (ColumnOf(a.dstWidth, i, b) - a.dstX)
        y == a.srcY + (RowOf(a.dstWidth, i) - a.dstY)
    IN  BitAt(pre[s], (x \div WordBits) + y * CeilDiv32(a.srcWidth), x % WordBits)

\* what the specification asks of a copy: inside the rectangle the source
\* bits, outside the destination as it was
IsCopyOf(after, pre, s, d, a) ==
    /\ Len(after) = Len(pre[d])
    /\ \A i \in 0..(Len(after) - 1) : \A b \in BitPositions :
           BitAt(after, i, b) = IF InRectangle(a, i, b)
                                THEN SourceBitFor(pre, s, a, i, b)
                                ELSE BitAt(pre[d], i, b)

ReferenceDone == call.pc = "settled" /\ call.kind = "reference"

BitbltDone == call.pc = "settled" /\ call.kind = "bitblt"

Textual == call.generator.class = "JavaScriptGenerator"

\* C7 (as stated): for every in-bounds operation the reference changes
\* only the destination bits of the rectangle, sets each to its source
\* bit, leaves the source buffer unchanged, and changes nothing when
\* width * height = 0.
C7_ReferenceFrameAnyBuffers ==
    ReferenceDone =>
        /\ IsCopyOf(heap[call.d], call.pre, call.s, call.d, call.args)
        /\ heap[call.s] = call.pre[call.s]
        /\ (call.args.width * call.args.height = 0 => heap = call.pre)

\* C7 (amended): the same, for operations whose source and destination
\* are distinct buffers.
C7_ReferenceFrame ==
    (ReferenceDone /\ call.s # call.d) =>
        /\ IsCopyOf(heap[call.d], call.pre, call.s, call.d, call.args)
        /\ heap[call.s] = call.pre[call.s]
        /\ (call.args.width * call.args.height = 0 => heap = call.pre)

\* C7 witness: a reference copy between distinct buffers that crossed a
\* word boundary and changed the destination.
C7_Witness ==
    /\ ReferenceDone
    /\ call.s # call.d
    /\ call.args.dstX + call.args.width > WordBits
    /\ call.args.height > 0
    /\ heap[call.d] # call.pre[call.d]

\* C1: a bitblt call with the textual back-end on distinct buffers ends
\* successfully with the destination equal, word for word, to the result
\* of the reference applied to the same inputs, whatever the unroll and
\* inline-constants flags.
C1_TextualEqualsOracle ==
    (BitbltDone /\ Textual /\ call.s # call.d) =>
        /\ call.outcome = "ok"
        /\ heap[call.d]
             = referenceBitBLT(call.pre, call.s, call.d, call.args)[call.d]
        /\ heap[call.s] = call.pre[call.s]

\* C1 witness: an unrolled routine without inlined constants has copied a
\* rectangle and changed the destination.
C1_Witness ==
    /\ BitbltDone
    /\ Textual
    /\ call.s # call.d
    /\ call.generator.options.unrollLoops
    /\ ~call.generator.options.inlineConstants
    /\ call.args.width * call.args.height > 0
    /\ heap[call.d] # call.pre[call.d]

\* C8: copying a region onto itself (one buffer as source and
\* destination, srcX = dstX, srcY = dstY) leaves every word of the buffer
\* unchanged, with the reference and with the textual back-end.
C8_SelfCopyUnchanged ==
    (/\ call.pc = "settled"
     /\ call.kind \in {"reference", "bitblt"}
     /\ call.s = call.d
     /\ call.args.srcX = call.args.dstX
     /\ call.args.srcY = call.args.dstY) =>
        /\ heap = call.pre
        /\ call.outcome = "ok"

\* C8 witness: the textual back-end has copied a region that spans two
\* words of a row onto itself.
C8_Witness ==
    /\ BitbltDone
    /\ Textual
    /\ call.s = call.d
    /\ call.args.srcX = call.args.dstX
    /\ call.args.srcY = call.args.dstY
    /\ call.args.srcX + call.args.width > WordBits
    /\ call.args.height > 0

(***************************************************************************)
(* SpecDispatch: bitblt with each back-end on distinct buffers, ordinary   *)
(* or shared, with verification on (the default) and off.                  *)
(***************************************************************************)
DispatchOptions ==
    { Options(<< >>, << >>, type, << >>, "none") :
        type \in {<< >>, <<NameWasm>>, <<NameZerocopy>>} }
    \cup {Options(<<FALSE>>, << >>, <<NameWasm>>, << >>, "none")}

Environments == {Env(TRUE, FALSE), Env(TRUE, TRUE), Env(FALSE, FALSE)}

\* the copy of a whole bitmap onto a bitmap of the same geometry, for the
\* bitmaps whose rows are one word
FullCopies(h, s, d) ==
    { Args(w, MaxRows, 0, 0, w, 0, 0, w, MaxRows) :
        w \in {v \in BitmapWidths : /\ v <= WordBits
                                     /\ BufferLength(v) = Len(h[s])
                                     /\ BufferLength(v) = Len(h[d])} }

InitDispatch == InitWith(AllBuffers, Environments)

DispatchCopy ==
    /\ call.pc = "idle"
    /\ \E a \in ValidArgs(heap, "src", "dst") \cup FullCopies(heap, "src", "dst") :
           \E o \in DispatchOptions : Bitblt("src", "dst", a, o)

NextDispatch == DispatchCopy \/ ExecuteResume \/ ThenVerify

SpecDispatch == InitDispatch /\ [][NextDispatch]_vars

Binary == call.generator.class = "WASMGenerator"
ZeroCopy == call.generator.class = "ZeroCopyWASMGenerator"

Oracle == referenceBitBLT(call.pre, call.s, call.d, call.args)[call.d]

\* the call ran generator.execute to completion (no error of execute)
Executed ==
    /\ BitbltDone
    /\ call.opts.useCompiled
    /\ call.outcome \in {"ok", "VerificationFailed", "TypeError"}

\* C2: on distinct ordinary buffers the binary back-end's copying path
\* leaves the destination equal bit for bit to the reference's result.
C2_BinaryEqualsOracle ==
    (Executed /\ Binary /\ call.s # call.d /\ ~call.env.shared) =>
        heap[call.d] = Oracle

FullCopy ==
    /\ call.args.srcX = 0 /\ call.args.srcY = 0
    /\ call.args.dstX = 0 /\ call.args.dstY = 0
    /\ call.args.width = call.args.srcWidth
    /\ call.args.width = call.args.dstWidth
    /\ call.args.height = call.args.srcHeight

\* the two buffers hold the same width x height bitmap
SameBitmap(buffer1, buffer2, width, height) ==
    \A y \in 0..(height - 1) : \A x \in 0..(width - 1) :
        BitAt(buffer1, (x \div WordBits) + y * CeilDiv32(width), x % WordBits)
        = BitAt(buffer2, (x \div WordBits) + y * CeilDiv32(width), x % WordBits)

\* C3: after the zero-copy back-end's execute of a full-bitmap copy, on
\* shared buffers or on ordinary ones, the destination holds what the
\* reference leaves in it and its bitmap equals the source bitmap.
C3_ZeroCopyFullCopy ==
    (Executed /\ ZeroCopy /\ FullCopy) =>
        /\ heap[call.d] = Oracle
        /\ SameBitmap(heap[call.d], heap[call.s], call.args.width,
                      call.args.height)

\* the pixel (x, y) of a bitmap of the given width held in buf
PixelBit(buf, width, x, y) ==
    LET i == (x \div WordBits) + y * CeilDiv32(width)
    IN  IF i < Len(buf) /\ BitAt(buf, i, x % WordBits) THEN 1 ELSE 0

\* r names the first pixel, in row-major order, at which the two buffers
\* differ, with the bit of each
FirstDifference(r, expected, actual, width) ==
    /\ r.x \in 0..(width - 1)
    /\ r.y >= 0
    /\ r.expected = PixelBit(expected, width, r.x, r.y)
    /\ r.actual = PixelBit(actual, width, r.x, r.y)
    /\ r.expected # r.actual
    /\ \A y \in 0..r.y : \A x \in 0..(width - 1) :
           (y < r.y \/ x < r.x) =>
               PixelBit(expected, width, x, y) = PixelBit(actual, width, x, y)

\* C5: with verification on, whenever the destination after the
\* specialized call differs from the oracle's scratch result in any word,
\* bitblt fails with the verification error naming the first differing
\* pixel in row-major order, expected being the oracle's bit and actual
\* the artifact's; no mismatch ends in another failure or in success.
C5_MismatchReported ==
    (Executed /\ call.opts.verifyResults /\ heap[call.d] # call.scratch) =>
        /\ call.outcome = "VerificationFailed"
        /\ Len(call.diff) = 1
        /\ FirstDifference(call.diff[1], call.scratch, heap[call.d],
                           call.args.dstWidth)

\* C6: bitblt returns at once (the destination buffer, or the thrown
\* error) with the textual back-end and returns a promise with the binary
\* and zero-copy back-ends; a promise has no verdict before execute has
\* completed, and with verification on it is fulfilled exactly when the
\* destination execute left equals the oracle's scratch result.
C6_DeferredVerification ==
    (call.kind = "bitblt" /\ call.opts.useCompiled /\ call.generator # NoGenerator) =>
        /\ Textual => (call.pc = "settled" /\ call.ret \in {"value", "throw"})
        /\ (Binary \/ ZeroCopy) => call.ret = "promise"
        /\ (call.ret = "promise" /\ call.pc \in {"pending", "resolved"}) =>
               call.outcome = "none"
        /\ (call.ret = "promise" /\ Executed /\ call.opts.verifyResults) =>
               (call.outcome = "ok" <=> heap[call.d] = call.scratch)
        /\ (call.ret = "value" /\ call.opts.verifyResults) =>
               heap[call.d] = call.scratch

\* C6 witness: a promise of the binary back-end was rejected by the
\* verification after execute had written the destination.
C6_Witness ==
    /\ Executed
    /\ Binary
    /\ call.ret = "promise"
    /\ call.opts.verifyResults
    /\ call.outcome = "VerificationFailed"
    /\ heap[call.d] # call.pre[call.d]

(***************************************************************************)
(* SpecKey: the two getCacheKey functions applied to pairs of parameter    *)
(* records.  The first record is one a caller would pass (nothing frozen,  *)
(* or every dimension frozen as execute does); the second differs from it  *)
(* in at most MaxEdits fields.                                             *)
(***************************************************************************)
KeyValues == {1, 12}

FlagNames == {"unrollLoops", "inlineConstants", "optimizeAlignedCopy", "useSIMD"}

DimNameSet == {DimNames[i] : i \in 1..Len(DimNames)}

NothingFrozen ==
    [srcWidth |-> << >>, srcHeight |-> << >>, dstWidth |-> << >>,
     srcX |-> << >>, srcY |-> << >>, dstX |-> << >>, dstY |-> << >>,
     width |-> << >>, height |-> << >>,
     unrollLoops |-> FALSE, inlineConstants |-> FALSE,
     optimizeAlignedCopy |-> FALSE, useSIMD |-> FALSE]

AllFrozen ==
    ExecuteParams(Args(12, 12, 1, 1, 12, 1, 1, 1, 1),
                  CompilerFlags(FALSE, TRUE, TRUE, FALSE))

KeyEdits ==
    {<<f, v>> : f \in DimNameSet, v \in {<<n>> : n \in KeyValues} \cup {<< >>}}
    \cup {<<f, b>> : f \in FlagNames, b \in BOOLEAN}

RECURSIVE Edited(_, _)
Edited(p, n) ==
    IF n = 0 THEN {p}
    ELSE LET less == Edited(p, n - 1)
         IN  less \cup {[r EXCEPT ![e[1]] = e[2]] : r \in less, e \in KeyEdits}

InitKey ==
    /\ heap = InitBuffers(0, 8, 8)
    /\ call = IdleCall(heap, Env(TRUE, FALSE))
    /\ userGen = NoGenerator
    /\ genLog = NoLog
    /\ config = DefaultConfig
    /\ defaultGenerator = DefaultGenerator
    /\ bin = NoBin
    /\ tasks = << >>
    /\ keys \in UNION {{[p |-> <<p>>, q |-> <<q>>, js |-> << >>, wasm |-> << >>] :
                           q \in Edited(p, MaxEdits)} :
                       p \in {NothingFrozen, AllFrozen}}

\* generator.getCacheKey(p) and generator.getCacheKey(q), textual generator
JsKeys ==
    /\ keys.js = << >>
    /\ keys' = [keys EXCEPT !.js = <<JsGetCacheKey(keys.p[1]),
                                     JsGetCacheKey(keys.q[1])>>]
    /\ UNCHANGED <<heap, call, userGen, genLog, config, bin, tasks, defaultGenerator>>

\* generator.getCacheKey(p) and generator.getCacheKey(q), binary generator
WasmKeys ==
    /\ keys.wasm = << >>
    /\ keys' = [keys EXCEPT !.wasm = <<WasmGetCacheKey(keys.p[1]),
                                       WasmGetCacheKey(keys.q[1])>>]
    /\ UNCHANGED <<heap, call, userGen, genLog, config, bin, tasks, defaultGenerator>>

NextKey == JsKeys \/ WasmKeys

SpecKey == InitKey /\ [][NextKey]_vars

\* the two records agree on which of the given fields are set and on the
\* values of those fields
AgreeOn(fields) == \A f \in fields : keys.p[1][f] = keys.q[1][f]

JsFlags == {"unrollLoops", "inlineConstants", "optimizeAlignedCopy"}

CacheOptions ==
    {NoOptions,
     Options(<< >>, << >>, << >>, << >>, "user"),
     Options(<<FALSE>>, << >>, <<NameWasm>>, << >>, "none")}

CacheArgs(h) ==
    {a \in ValidArgs(h, "src", "dst") :
        /\ a.width = 1 /\ a.height = 1
        /\ a.srcX = 0 /\ a.srcY = 0 /\ a.dstY = 0}

InitCache ==
    InitWith({InitBuffers(p, 8, 8) : p \in 0..MaxPattern}, {Env(FALSE, FALSE)})

CacheBitblt ==
    /\ call.pc = "idle"
    /\ \E a \in CacheArgs(heap) : \E o \in CacheOptions : Bitblt("src", "dst", a, o)

CacheCreate ==
    /\ call.pc = "idle"
    /\ userGen = NoGenerator
    /\ \E type \in {NameJavascript, NameWasm} : CreateGenerator(type, << >>)

NextCache ==
    \/ CacheBitblt
    \/ CacheCreate
    \/ ClearCache
    \/ ExecuteResume
    \/ ThenVerify
    \/ Again

SpecCache == InitCache /\ [][NextCache]_vars

\* C4: across the bitblt calls since the last clearCache, the back-end's
\* generate has run at most once for each fingerprint: a later call with
\* the parameters of an earlier one does not run generate again.
C4_GeneratedOncePerFingerprint ==
    \A k \in DOMAIN genLog : genLog[k] <= 1

(***************************************************************************)
(* SpecFactory: createGenerator and bitblt called with back-end names in   *)
(* lower case, capitalised and in upper case, with names the factory does  *)
(* not know, and with the empty name.                                      *)
(***************************************************************************)
RecognizedNames ==
    {NameJs, NameJavascript, NameWasm, NameWebassembly, NameZeroCopyWasm,
     NameZerocopyWasm, NameZerocopy}

\* the upper-case letter of a lower-case letter, any other character itself
UpperOf(c) ==
    IF \E i \in 1..Len(LowerChars) : LowerChars[i] = c
    THEN UpperChars[CHOOSE i \in 1..Len(LowerChars) : LowerChars[i] = c]
    ELSE c

AllUpper(str) == [i \in 1..Len(str) |-> UpperOf(str[i])]

Capitalized(str) == [i \in 1..Len(str) |-> IF i = 1 THEN UpperOf(str[i]) ELSE str[i]]

UnknownNames ==
    {<<"u", "n", "k", "n", "o", "w", "n">>,
     <<"t", "e", "x", "t", "u", "a", "l">>,
     <<"w", "a", "s", "m", "2">>,
     <<"j">>,
     << >>}

InputNames ==
    RecognizedNames
    \cup {AllUpper(n) : n \in RecognizedNames}
    \cup {Capitalized(n) : n \in RecognizedNames}
    \cup UnknownNames

FactoryArgs == Args(8, MaxRows, 0, 0, 8, 0, 0, 1, 1)

InitFactory == InitWith({InitBuffers(0, 8, 8)}, {Env(FALSE, FALSE)})

FactoryCreate ==
    /\ call.pc = "idle"
    /\ \E type \in InputNames : CreateGenerator(type, << >>)

FactoryBitblt ==
    /\ call.pc = "idle"
    /\ \E type \in InputNames : \E compiled \in {<< >>, <<FALSE>>} :
       \E generator \in {"none", "user"} :
           Bitblt("src", "dst", FactoryArgs,
                  Options(<<FALSE>>, compiled, <<type>>, << >>, generator))

NextFactory ==
    \/ FactoryCreate
    \/ FactoryBitblt
    \/ ExecuteResume
    \/ ThenVerify
    \/ Again

SpecFactory == InitFactory /\ [][NextFactory]_vars

\* the two characters are the same letter in either case, or the same
\* character
SameIgnoringCase(c, e) ==
    \/ c = e
    \/ \E i \in 1..Len(UpperChars) :
           {c, e} = {UpperChars[i], LowerChars[i]}

\* the name is one of the recognized names up to the case of its letters
Names(type, names) ==
    \E n \in names :
        /\ Len(n) = Len(type)
        /\ \A i \in 1..Len(n) : SameIgnoringCase(type[i], n[i])

Recognized(type) == Names(type, RecognizedNames)

\* the back-end class each recognized name stands for
ClassOf(type) ==
    IF Names(type, {NameJs, NameJavascript}) THEN "JavaScriptGenerator"
    ELSE IF Names(type, {NameWasm, NameWebassembly}) THEN "WASMGenerator"
    ELSE "ZeroCopyWASMGenerator"

\* the factory part of C10: a settled createGenerator call returned a new
\* back-end of the named class if the name is recognized up to case and
\* threw the unknown-back-end error otherwise
FactoryByName ==
    (call.kind = "createGenerator" /\ call.pc = "settled") =>
        IF Recognized(call.type)
        THEN /\ call.ret = "value"
             /\ call.generator = NewGenerator(ClassOf(call.type), config.compiler)
        ELSE /\ call.ret = "throw"
             /\ call.outcome = "Unknown generator type"

\* the bitblt call has failed with the unknown-back-end error and the
\* buffers are as they were when it was called
FailedUnwritten ==
    /\ call.pc = "settled"
    /\ call.ret = "throw"
    /\ call.outcome = "Unknown generator type"
    /\ heap = call.pre

InRange(a, srcLength, dstLength) ==
    /\ a.srcX + a.width <= a.srcWidth
    /\ a.dstX + a.width <= a.dstWidth
    /\ a.srcY + a.height <= a.srcHeight
    /\ (a.srcY + a.height) * CeilDiv32(a.srcWidth) <= srcLength
    /\ (a.dstY + a.height) * CeilDiv32(a.dstWidth) <= dstLength

RangeXPositions == {0, 6}

OutOfRangeArgs(h, s, d) ==
    { a \in { Args(8, MaxRows, sx, sy, 8, dx, dy, w, MaxRows - 1) :
                sx \in RangeXPositions, dx \in RangeXPositions,
                sy \in {0, MaxRows}, dy \in {0, MaxRows}, w \in {1, MaxRectW} } :
        ~InRange(a, Len(h[s]), Len(h[d])) }

RangeOptions ==
    {NoOptions,
     Options(<<FALSE>>, << >>, << >>, << >>, "none"),
     Options(<< >>, <<FALSE>>, << >>, << >>, "none")}

InitRange == InitWith({InitBuffers(p, 8, 8) : p \in 0..MaxPattern}, {Env(FALSE, FALSE)})

RangeBitblt ==
    /\ call.pc = "idle"
    /\ \E a \in OutOfRangeArgs(heap, "src", "dst") : \E o \in RangeOptions :
           Bitblt("src", "dst", a, o)

NextRange == RangeBitblt

SpecRange == InitRange /\ [][NextRange]_vars

\* C11: a bitblt call whose rectangle leaves the source or the destination
\* bitmap fails with an out-of-range error and leaves every word of the
\* buffers as it was.
C11_OutOfRangeFails ==
    (BitbltDone /\ ~InRange(call.args, Len(call.pre[call.s]), Len(call.pre[call.d]))) =>
        /\ call.ret = "throw"
        /\ call.outcome = "RangeError"
        /\ heap = call.pre

(***************************************************************************)
(* The binary utilities: LEB128 encoders, sections, concatenation.  A      *)
(* number is the set of the bit positions set in its 32-bit pattern (bit   *)
(* 31 is the sign of a signed number); a byte is an integer 0..255.        *)
(***************************************************************************)
\* the 32-bit pattern of an integer -2^31 < n < 2^31
ToInt32(n) ==
    IF n >= 0
    THEN {b \in 0..(WordBits - 2) : (n \div (2 ^ b)) % 2 = 1}
    ELSE BitPositions \ {b \in 0..(WordBits - 2) : ((-n - 1) \div (2 ^ b)) % 2 = 1}

\* value & 0x7f
Low7(value) == value \cap 0..6

\* value >>> 7
JsUShr7(value) == {b - 7 : b \in {c \in value : c >= 7}}

\* value >> 7
JsShr7(value) ==
    JsUShr7(value) \cup (IF (WordBits - 1) \in value THEN (WordBits - 7)..(WordBits - 1) ELSE {})

\* encodeULEB128 without the continuation bit
ulebByteNoContinuation(value) == WordToNat(Low7(value))

\* byte = value & 0x7f; value >>>= 7; if (value !== 0) byte |= 0x80
ulebByte(value) ==
    WordToNat(Low7(value)) + (IF JsUShr7(value) # {} THEN 128 ELSE 0)

RECURSIVE encodeULEB128(_)
encodeULEB128(value) ==
    <<ulebByte(value)>> \o
        (IF JsUShr7(value) # {} THEN encodeULEB128(JsUShr7(value)) ELSE << >>)

\* (value === 0 && (byte & 0x40) === 0) || (value === -1 && (byte & 0x40) !== 0),
\* value already shifted
slebLast(value) ==
    \/ JsShr7(value) = {} /\ 6 \notin Low7(value)
    \/ JsShr7(value) = BitPositions /\ 6 \in Low7(value)

\* encodeSLEB128 that stops as the unsigned encoder does
slebByteUnsignedStop(value) ==
    WordToNat(Low7(value)) + (IF JsShr7(value) \in {{}, BitPositions} THEN 0 ELSE 128)

\* byte = value & 0x7f; value >>= 7; more = false or byte |= 0x80
slebByte(value) ==
    WordToNat(Low7(value)) + (IF slebLast(value) THEN 0 ELSE 128)

RECURSIVE encodeSLEB128(_)
encodeSLEB128(value) ==
    <<slebByte(value)>> \o
        (IF slebByte(value) < 128 THEN << >> ELSE encodeSLEB128(JsShr7(value)))

(***************************************************************************)
(* The binary module: header, type, import, function, export and code      *)
(* sections, and the function body.                                        *)
(***************************************************************************)
\* IF and ELSE are written IF_ and ELSE_
Opcodes ==
    [BLOCK |-> 2, LOOP |-> 3, IF_ |-> 4, ELSE_ |-> 5, END |-> 11, BR |-> 12, BR_IF |-> 13,
     RETURN |-> 15, CALL |-> 16, DROP |-> 26, LOCAL_GET |-> 32, LOCAL_SET |-> 33,
     LOCAL_TEE |-> 34, GLOBAL_GET |-> 35, GLOBAL_SET |-> 36, I32_LOAD |-> 40,
     I32_STORE |-> 54, I32_CONST |-> 65, I32_EQZ |-> 69, I32_EQ |-> 70, I32_NE |-> 71,
     I32_LT_S |-> 72, I32_LT_U |-> 73, I32_GT_S |-> 74, I32_GT_U |-> 75, I32_LE_S |-> 76,
     I32_LE_U |-> 77, I32_GE_S |-> 78, I32_GE_U |-> 79, I32_ADD |-> 106, I32_SUB |-> 107,
     I32_MUL |-> 108, I32_DIV_S |-> 109, I32_DIV_U |-> 110, I32_REM_S |-> 111,
     I32_REM_U |-> 112, I32_AND |-> 113, I32_OR |-> 114, I32_XOR |-> 115, I32_SHL |-> 116,
     I32_SHR_S |-> 117, I32_SHR_U |-> 118, I32_ROTL |-> 119, I32_ROTR |-> 120]

ValueType == [I32 |-> 127, I64 |-> 126, F32 |-> 125, F64 |-> 124]

SectionId == [TYPE |-> 1, IMPORT |-> 2, FUNCTION |-> 3, MEMORY |-> 5, EXPORT |-> 7, CODE |-> 10]

RECURSIVE concatUint8ArraysDroppingLast(_)
concatUint8ArraysDroppingLast(arrays) ==
    IF Len(arrays) <= 1 THEN << >>
    ELSE Head(arrays) \o concatUint8ArraysDroppingLast(Tail(arrays))

RECURSIVE concatUint8Arrays(_)
concatUint8Arrays(arrays) ==
    IF arrays = << >> THEN << >>
    ELSE Head(arrays) \o concatUint8Arrays(Tail(arrays))

\* createSection whose size field counts the id byte too
createSectionCountingId(id, content) ==
    <<id>> \o encodeULEB128(ToInt32(Len(content) + 1)) \o content

createSection(id, content) ==
    <<id>> \o encodeULEB128(ToInt32(Len(content))) \o content

createTypeSection ==
    LET count       == encodeULEB128(ToInt32(1))
        funcType    == <<96>>
        paramCount  == encodeULEB128(ToInt32(11))
        paramTypes  == [i \in 1..11 |-> ValueType.I32]
        returnCount == encodeULEB128(ToInt32(0))
    IN  createSection(SectionId.TYPE,
            concatUint8Arrays(<<count, funcType, paramCount, paramTypes, returnCount>>))

createFunctionSection ==
    LET count    == encodeULEB128(ToInt32(1))
        funcType == encodeULEB128(ToInt32(0))
    IN  createSection(SectionId.FUNCTION, concatUint8Arrays(<<count, funcType>>))

createImportSection(shared) ==
    LET count         == encodeULEB128(ToInt32(1))
        moduleNameLen == encodeULEB128(ToInt32(3))
        moduleName    == <<101, 110, 118>>
        fieldNameLen  == encodeULEB128(ToInt32(6))
        fieldName     == <<109, 101, 109, 111, 114, 121>>
        importType    == <<2>>
        limits        == IF shared THEN <<3, 1, 16>> ELSE <<1, 1, 16>>
    IN  createSection(SectionId.IMPORT,
            concatUint8Arrays(<<count, moduleNameLen, moduleName, fieldNameLen, fieldName,
                                importType, limits>>))

createExportSection ==
    LET count          == encodeULEB128(ToInt32(1))
        funcNameLen    == encodeULEB128(ToInt32(6))
        funcName       == <<98, 105, 116, 98, 108, 116>>
        funcExportType == <<0>>
        funcIndex      == encodeULEB128(ToInt32(0))
    IN  createSection(SectionId.EXPORT,
            concatUint8Arrays(<<count, funcNameLen, funcName, funcExportType, funcIndex>>))

generateBitBLTFunctionBody(options) ==
    LET localCount == encodeULEB128(ToInt32(9))
        localTypes == concatUint8Arrays(
            [i \in 1..18 |-> IF i % 2 = 1 THEN encodeULEB128(ToInt32(1)) ELSE <<ValueType.I32>>])
        code1 == concatUint8Arrays(<<
            \* Calculate srcWidthInUint32 = Math.ceil(srcWidth / 32)
            \* (srcWidth + 31) >> 5
            <<Opcodes.LOCAL_GET>> \o encodeULEB128(ToInt32(1)),  \* srcWidth
            <<Opcodes.I32_CONST>> \o encodeSLEB128(ToInt32(31)),
            <<Opcodes.I32_ADD>>,
            <<Opcodes.I32_CONST>> \o encodeSLEB128(ToInt32(5)),
            <<Opcodes.I32_SHR_U>>,
            <<Opcodes.LOCAL_SET>> \o encodeULEB128(ToInt32(11)),  \* srcWidthInUint32 (local 11)
            \* Calculate dstWidthInUint32 = Math.ceil(dstWidth / 32)
            \* (dstWidth + 31) >> 5
            <<Opcodes.LOCAL_GET>> \o encodeULEB128(ToInt32(6)),  \* dstWidth
            <<Opcodes.I32_CONST>> \o encodeSLEB128(ToInt32(31)),
            <<Opcodes.I32_ADD>>,
            <<Opcodes.I32_CONST>> \o encodeSLEB128(ToInt32(5)),
            <<Opcodes.I32_SHR_U>>,
            <<Opcodes.LOCAL_SET>> \o encodeULEB128(ToInt32(12))  \* dstWidthInUint32 (local 12)
            >>)
        code2 == concatUint8Arrays(<<
            \* Outer loop (y = 0; y < height; y++)
            \* Initialize y = 0
            <<Opcodes.I32_CONST>> \o encodeSLEB128(ToInt32(0)),
            <<Opcodes.LOCAL_SET>> \o encodeULEB128(ToInt32(13)),  \* y (local 13)
            \* Loop start
            <<Opcodes.BLOCK, 64>>,  \* block with no return type
            <<Opcodes.LOOP, 64>>,  \* loop with no return type
            \* Check if y < height
            <<Opcodes.LOCAL_GET>> \o encodeULEB128(ToInt32(13)),  \* y
            <<Opcodes.LOCAL_GET>> \o encodeULEB128(ToInt32(10)),  \* height
            <<Opcodes.I32_LT_S>>,
            \* If not, break out of the loop
            <<Opcodes.I32_EQZ>>,
            <<Opcodes.BR_IF, 1>>,  \* break to outer block
            \* Calculate srcYPos = srcY + y
            <<Opcodes.LOCAL_GET>> \o encodeULEB128(ToInt32(4)),  \* srcY
            <<Opcodes.LOCAL_GET>> \o encodeULEB128(ToInt32(13)),  \* y
            <<Opcodes.I32_ADD>>,
            <<Opcodes.LOCAL_SET>> \o encodeULEB128(ToInt32(14))  \* srcYPos (local 14)
            >>)
        code3 == concatUint8Arrays(<<
            \* Calculate dstYPos = dstY + y
            <<Opcodes.LOCAL_GET>> \o encodeULEB128(ToInt32(8)),  \* dstY
            <<Opcodes.LOCAL_GET>> \o encodeULEB128(ToInt32(13)),  \* y
            <<Opcodes.I32_ADD>>,
            <<Opcodes.LOCAL_SET>> \o encodeULEB128(ToInt32(15)),  \* dstYPos (local 15)
            \* Inner loop (x = 0; x < width; x++)
            \* Initialize x = 0
            <<Opcodes.I32_CONST>> \o encodeSLEB128(ToInt32(0)),
            <<Opcodes.LOCAL_SET>> \o encodeULEB128(ToInt32(16)),  \* x (local 16)
            \* Loop start
            <<Opcodes.BLOCK, 64>>,  \* block with no return type
            <<Opcodes.LOOP, 64>>,  \* loop with no return type
            \* Check if x < width
            <<Opcodes.LOCAL_GET>> \o encodeULEB128(ToInt32(16)),  \* x
            <<Opcodes.LOCAL_GET>> \o encodeULEB128(ToInt32(9)),  \* width
            <<Opcodes.I32_LT_S>>,
            \* If not, break out of the loop
            <<Opcodes.I32_EQZ>>,
            <<Opcodes.BR_IF, 1>>  \* break to outer block
            >>)
        code4 == concatUint8Arrays(<<
            \* Calculate srcXPos = srcX + x
            <<Opcodes.LOCAL_GET>> \o encodeULEB128(ToInt32(3)),  \* srcX
            <<Opcodes.LOCAL_GET>> \o encodeULEB128(ToInt32(16)),  \* x
            <<Opcodes.I32_ADD>>,
            \* Calculate srcElementIndex = (srcXPos / 32) + srcYPos * srcWidthInUint32
            \* First calculate srcXPos / 32 (or srcXPos >> 5)
            <<Opcodes.I32_CONST>> \o encodeSLEB128(ToInt32(5)),
            <<Opcodes.I32_SHR_U>>,  \* srcXPos >> 5
            \* Add srcYPos * srcWidthInUint32
            <<Opcodes.LOCAL_GET>> \o encodeULEB128(ToInt32(14)),  \* srcYPos
            <<Opcodes.LOCAL_GET>> \o encodeULEB128(ToInt32(11)),  \* srcWidthInUint32
            <<Opcodes.I32_MUL>>,
            <<Opcodes.I32_ADD>>,
            \* Calculate memory offset for srcBuffer[srcElementIndex]
            <<Opcodes.LOCAL_GET>> \o encodeULEB128(ToInt32(0)),  \* srcBuffer
            <<Opcodes.I32_ADD>>,
            \* Calculate srcBitPos = srcXPos % 32
            <<Opcodes.LOCAL_GET>> \o encodeULEB128(ToInt32(3)),  \* srcX
            <<Opcodes.LOCAL_GET>> \o encodeULEB128(ToInt32(16)),  \* x
            <<Opcodes.I32_ADD>>,
            <<Opcodes.I32_CONST>> \o encodeSLEB128(ToInt32(31)),
            <<Opcodes.I32_AND>>  \* srcXPos & 31
            >>)
        code5 == concatUint8Arrays(<<
            \* Load srcBuffer[srcElementIndex]
            <<Opcodes.I32_LOAD, 2, 0>>,  \* alignment=2 (4 bytes), offset=0
            \* Extract the bit: (srcBuffer[srcElementIndex] >>> srcBitPos) & 1
            \* First shift right by srcBitPos
            <<Opcodes.I32_SHR_U>>,
            \* Then AND with 1
            <<Opcodes.I32_CONST>> \o encodeSLEB128(ToInt32(1)),
            <<Opcodes.I32_AND>>,
            \* Store the result in srcBit
            <<Opcodes.LOCAL_SET>> \o encodeULEB128(ToInt32(17)),  \* srcBit (local 17)
            \* Calculate dstXPos = dstX + x
            <<Opcodes.LOCAL_GET>> \o encodeULEB128(ToInt32(7)),  \* dstX
            <<Opcodes.LOCAL_GET>> \o encodeULEB128(ToInt32(16)),  \* x
            <<Opcodes.I32_ADD>>,
            \* Calculate dstElementIndex = (dstXPos / 32) + dstYPos * dstWidthInUint32
            \* First calculate dstXPos / 32 (or dstXPos >> 5)
            <<Opcodes.I32_CONST>> \o encodeSLEB128(ToInt32(5)),
            <<Opcodes.I32_SHR_U>>,  \* dstXPos >> 5
            \* Add dstYPos * dstWidthInUint32
            <<Opcodes.LOCAL_GET>> \o encodeULEB128(ToInt32(15)),  \* dstYPos
            <<Opcodes.LOCAL_GET>> \o encodeULEB128(ToInt32(12)),  \* dstWidthInUint32
            <<Opcodes.I32_MUL>>,
            <<Opcodes.I32_ADD>>
            >>)
        code6 == concatUint8Arrays(<<
            \* Calculate memory offset for dstBuffer[dstElementIndex]
            <<Opcodes.LOCAL_GET>> \o encodeULEB128(ToInt32(5)),  \* dstBuffer
            <<Opcodes.I32_ADD>>,
            \* Calculate dstBitPos = dstXPos % 32
            <<Opcodes.LOCAL_GET>> \o encodeULEB128(ToInt32(7)),  \* dstX
            <<Opcodes.LOCAL_GET>> \o encodeULEB128(ToInt32(16)),  \* x
            <<Opcodes.I32_ADD>>,
            <<Opcodes.I32_CONST>> \o encodeSLEB128(ToInt32(31)),
            <<Opcodes.I32_AND>>,  \* dstXPos & 31
            \* Store dstBitPos in local 18
            <<Opcodes.LOCAL_TEE>> \o encodeULEB128(ToInt32(18)),  \* Store dstBitPos temporarily
            \* Calculate dstElementIndex
            <<Opcodes.LOCAL_GET>> \o encodeULEB128(ToInt32(5)),  \* dstBuffer
            <<Opcodes.LOCAL_GET>> \o encodeULEB128(ToInt32(7)),  \* dstX
            <<Opcodes.LOCAL_GET>> \o encodeULEB128(ToInt32(16)),  \* x
            <<Opcodes.I32_ADD>>,
            <<Opcodes.I32_CONST>> \o encodeSLEB128(ToInt32(5)),
            <<Opcodes.I32_SHR_U>>,
            <<Opcodes.LOCAL_GET>> \o encodeULEB128(ToInt32(15)),  \* dstYPos
            <<Opcodes.LOCAL_GET>> \o encodeULEB128(ToInt32(12)),  \* dstWidthInUint32
            <<Opcodes.I32_MUL>>,
            <<Opcodes.I32_ADD>>,
            <<Opcodes.I32_CONST>> \o encodeSLEB128(ToInt32(2)),
            <<Opcodes.I32_SHL>>,  \* Multiply by 4 (bytes per i32)
            <<Opcodes.I32_ADD>>
            >>)
        code7 == concatUint8Arrays(<<
            \* Load dstBuffer[dstElementIndex] and store in local 19 (temp)
            <<Opcodes.I32_LOAD, 2, 0>>,  \* alignment=2 (4 bytes), offset=0
            <<Opcodes.LOCAL_SET>> \o encodeULEB128(ToInt32(19)),  \* Store in temp
            \* Check if srcBit is 1
            <<Opcodes.LOCAL_GET>> \o encodeULEB128(ToInt32(17)),  \* srcBit
            <<Opcodes.I32_CONST>> \o encodeSLEB128(ToInt32(1)),
            <<Opcodes.I32_EQ>>,
            \* If-else block
            <<Opcodes.IF_, 64>>,  \* if with no return type
            \* If srcBit is 1, set the bit: dstBuffer[dstElementIndex] |= (1 << dstBitPos)
            <<Opcodes.LOCAL_GET>> \o encodeULEB128(ToInt32(19)),  \* Load temp (current value)
            <<Opcodes.I32_CONST>> \o encodeSLEB128(ToInt32(1)),
            <<Opcodes.LOCAL_GET>> \o encodeULEB128(ToInt32(18)),  \* dstBitPos
            <<Opcodes.I32_SHL>>,
            <<Opcodes.I32_OR>>,
            <<Opcodes.LOCAL_SET>> \o encodeULEB128(ToInt32(19)),  \* Store back to temp
            <<Opcodes.ELSE_>>
            >>)
        code8 == concatUint8Arrays(<<
            \* If srcBit is 0, clear the bit: dstBuffer[dstElementIndex] &= ~(1 << dstBitPos)
            <<Opcodes.LOCAL_GET>> \o encodeULEB128(ToInt32(19)),  \* Load temp (current value)
            <<Opcodes.I32_CONST>> \o encodeSLEB128(ToInt32(1)),
            <<Opcodes.LOCAL_GET>> \o encodeULEB128(ToInt32(18)),  \* dstBitPos
            <<Opcodes.I32_SHL>>,
            <<Opcodes.I32_CONST>> \o encodeSLEB128(ToInt32(-1)),
            <<Opcodes.I32_XOR>>,
            <<Opcodes.I32_AND>>,
            <<Opcodes.LOCAL_SET>> \o encodeULEB128(ToInt32(19)),  \* Store back to temp
            <<Opcodes.END>>,  \* end if
            \* Store the result back to dstBuffer[dstElementIndex]
            <<Opcodes.LOCAL_GET>> \o encodeULEB128(ToInt32(5)),  \* dstBuffer
            <<Opcodes.LOCAL_GET>> \o encodeULEB128(ToInt32(7)),  \* dstX
            <<Opcodes.LOCAL_GET>> \o encodeULEB128(ToInt32(16)),  \* x
            <<Opcodes.I32_ADD>>,
            <<Opcodes.I32_CONST>> \o encodeSLEB128(ToInt32(5)),
            <<Opcodes.I32_SHR_U>>,
            <<Opcodes.LOCAL_GET>> \o encodeULEB128(ToInt32(15)),  \* dstYPos
            <<Opcodes.LOCAL_GET>> \o encodeULEB128(ToInt32(12)),  \* dstWidthInUint32
            <<Opcodes.I32_MUL>>,
            <<Opcodes.I32_ADD>>,
            <<Opcodes.I32_CONST>> \o encodeSLEB128(ToInt32(2)),
            <<Opcodes.I32_SHL>>,  \* Multiply by 4 (bytes per i32)
            <<Opcodes.I32_ADD>>,
            <<Opcodes.LOCAL_GET>> \o encodeULEB128(ToInt32(19)),  \* Load the result from temp
            <<Opcodes.I32_STORE, 2, 0>>  \* alignment=2 (4 bytes), offset=0
            >>)
        code9 == concatUint8Arrays(<<
            \* Increment x
            <<Opcodes.LOCAL_GET>> \o encodeULEB128(ToInt32(16)),  \* x
            <<Opcodes.I32_CONST>> \o encodeSLEB128(ToInt32(1)),
            <<Opcodes.I32_ADD>>,
            <<Opcodes.LOCAL_SET>> \o encodeULEB128(ToInt32(16)),  \* x
            \* Continue inner loop
            <<Opcodes.BR, 0>>,
            <<Opcodes.END>>,  \* end inner loop
            <<Opcodes.END>>,  \* end inner block
            \* Increment y
            <<Opcodes.LOCAL_GET>> \o encodeULEB128(ToInt32(13)),  \* y
            <<Opcodes.I32_CONST>> \o encodeSLEB128(ToInt32(1)),
            <<Opcodes.I32_ADD>>,
            <<Opcodes.LOCAL_SET>> \o encodeULEB128(ToInt32(13)),  \* y
            \* Continue outer loop
            <<Opcodes.BR, 0>>,
            <<Opcodes.END>>,  \* end outer loop
            <<Opcodes.END>>,  \* end outer block
            \* End function
            <<Opcodes.END>>
            >>)
        code == concatUint8Arrays(<<code1, code2, code3, code4, code5, code6, code7, code8, code9>>)
    IN  concatUint8Arrays(<<localCount, localTypes, code>>)

createCodeSection(options) ==
    LET count    == encodeULEB128(ToInt32(1))
        funcBody == generateBitBLTFunctionBody(options)
        bodySize == encodeULEB128(ToInt32(Len(funcBody)))
        func     == concatUint8Arrays(<<bodySize, funcBody>>)
    IN  createSection(SectionId.CODE, concatUint8Arrays(<<count, func>>))

generateWasmBitBLTModule(options, shared) ==
    LET header   == <<0, 97, 115, 109, 1, 0, 0, 0>>
        sections == <<createTypeSection, createImportSection(shared), createFunctionSection,
                      createExportSection, createCodeSection(options)>>
    IN  concatUint8Arrays(<<header>> \o sections)

\* the bit positions the encoders are tried on: around every 7-bit boundary
LebPositions == {0, 5, 6, 7, 13, 14, 20, 21, 27, 28, 31}

LebValues ==
    LET sparse == SUBSET LebPositions
        runs   == {0..k : k \in BitPositions} \cup {k..(WordBits - 1) : k \in BitPositions}
    IN  sparse \cup {BitPositions \ v : v \in sparse} \cup runs

\* the options and the shared flag generateWasmBitBLTModule is called with
ModuleOptions ==
    {CompilerFlags(ul, ic, oa, an) : ul \in BOOLEAN, ic \in BOOLEAN, oa \in BOOLEAN, an \in BOOLEAN}

InitBinary ==
    /\ heap = InitBuffers(0, 8, 8)
    /\ call = IdleCall(heap, Env(FALSE, FALSE))
    /\ userGen = NoGenerator
    /\ genLog = NoLog
    /\ config = DefaultConfig
    /\ defaultGenerator = DefaultGenerator
    /\ keys = NoKeys
    /\ tasks = << >>
    /\ bin \in {[op |-> "value", value |-> v, bytes |-> << >>] : v \in LebValues} \cup
               {[op |-> "options", options |-> o, shared |-> sh, bytes |-> << >>] :
                    o \in ModuleOptions, sh \in BOOLEAN}

\* encodeULEB128(value)
EncodeULEB128 ==
    /\ bin.op = "value"
    /\ bin' = [bin EXCEPT !.op = "uleb", !.bytes = encodeULEB128(bin.value)]
    /\ UNCHANGED <<heap, call, userGen, genLog, config, keys, tasks, defaultGenerator>>

\* encodeSLEB128(value)
EncodeSLEB128 ==
    /\ bin.op = "value"
    /\ bin' = [bin EXCEPT !.op = "sleb", !.bytes = encodeSLEB128(bin.value)]
    /\ UNCHANGED <<heap, call, userGen, genLog, config, keys, tasks, defaultGenerator>>

\* generateWasmBitBLTModule(options, shared)
GenerateWasmBitBLTModule ==
    /\ bin.op = "options"
    /\ bin' = [bin EXCEPT !.op = "module",
                          !.bytes = generateWasmBitBLTModule(bin.options, bin.shared)]
    /\ UNCHANGED <<heap, call, userGen, genLog, config, keys, tasks, defaultGenerator>>

NextBinary == EncodeULEB128 \/ EncodeSLEB128 \/ GenerateWasmBitBLTModule

SpecBinary == InitBinary /\ [][NextBinary]_vars

\* the bits of a byte
ByteBits(byte) == {b \in 0..7 : (byte \div (2 ^ b)) % 2 = 1}

\* the payload of a LEB128 byte sequence: 7 bits a byte, low group first
LebPayload(bytes) ==
    UNION {{7 * (i - 1) + b : b \in ByteBits(bytes[i]) \ {7}} : i \in 1..Len(bytes)}

\* every byte but the last has the continuation bit, the last has not
WellTerminated(bytes) ==
    /\ Len(bytes) >= 1
    /\ \A i \in 1..(Len(bytes) - 1) : 7 \in ByteBits(bytes[i])
    /\ 7 \notin ByteBits(bytes[Len(bytes)])

BitLength(value) == IF value = {} THEN 0 ELSE (CHOOSE b \in value : \A c \in value : c <= b) + 1

\* a two's complement pattern of the given width, extended to 35 bits
SignExtend(bits, width) ==
    bits \cup (IF (width - 1) \in bits THEN width..34 ELSE {})

\* the signed number fits k LEB128 bytes: bits 7k-1 .. 31 are all equal
FitsSigned(value, k) ==
    \A b \in (7 * k - 1)..(WordBits - 1) : (b \in value) <=> ((WordBits - 1) \in value)

\* C13: decoding encodeULEB128(n) as unsigned LEB128 yields n, and the
\* encoding has max(1, ceil(bitlength(n)/7)) bytes, at most 5, every byte
\* but the last with the continuation bit 0x80 and the last without it.
C13_UlebRoundTrip ==
    bin.op = "uleb" =>
        /\ WellTerminated(bin.bytes)
        /\ LebPayload(bin.bytes) = bin.value
        /\ Len(bin.bytes) = (IF bin.value = {} THEN 1 ELSE (BitLength(bin.value) + 6) \div 7)
        /\ Len(bin.bytes) <= 5

\* C13 witness: a number of 2^31 or more was encoded in five bytes.
C13_Witness ==
    /\ bin.op = "uleb"
    /\ 31 \in bin.value
    /\ Len(bin.bytes) = 5
    /\ LebPayload(bin.bytes) = bin.value

\* C14: decoding encodeSLEB128(n) as signed LEB128, sign-extending from bit
\* 0x40 of the last byte, yields n; the encoding has at most 5 bytes; and
\* no shorter byte sequence decodes to n: n is outside the range of every
\* smaller number of bytes, and no single byte decodes to n when the
\* encoding has more than one.
C14_SlebRoundTrip ==
    bin.op = "sleb" =>
        /\ WellTerminated(bin.bytes)
        /\ Len(bin.bytes) <= 5
        /\ SignExtend(LebPayload(bin.bytes), 7 * Len(bin.bytes)) = SignExtend(bin.value, WordBits)
        /\ \A k \in 1..(Len(bin.bytes) - 1) : ~FitsSigned(bin.value, k)
        /\ Len(bin.bytes) > 1 =>
               \A byte \in 0..127 :
                   SignExtend(LebPayload(<<byte>>), 7) # SignExtend(bin.value, WordBits)

\* C14 witness: a negative number that needs two bytes (bit 6 clear, as in
\* -65) was encoded and decodes to itself.
C14_Witness ==
    /\ bin.op = "sleb"
    /\ 31 \in bin.value
    /\ 6 \notin bin.value
    /\ Len(bin.bytes) = 2
    /\ SignExtend(LebPayload(bin.bytes), 14) = SignExtend(bin.value, WordBits)

\* the unsigned LEB128 number read at pos and the position after it; -1
\* when the bytes end inside the number
RECURSIVE ReadULEB(_, _)
ReadULEB(bytes, pos) ==
    IF pos > Len(bytes) THEN [value |-> -1, next |-> pos]
    ELSE IF bytes[pos] < 128 THEN [value |-> bytes[pos], next |-> pos + 1]
    ELSE LET rest == ReadULEB(bytes, pos + 1)
         IN  [value |-> IF rest.value < 0 THEN -1 ELSE (bytes[pos] - 128) + 128 * rest.value,
              next  |-> rest.next]

\* the sections read from pos to the end of the bytes, each an id, a
\* ULEB128 length and that many bytes of content; id -1 where the framing
\* breaks
RECURSIVE ReadSections(_, _)
ReadSections(bytes, pos) ==
    IF pos > Len(bytes) THEN << >>
    ELSE LET size == ReadULEB(bytes, pos + 1)
             last == size.next + size.value - 1
         IN  IF size.value < 0 \/ last > Len(bytes)
             THEN <<[id |-> -1, content |-> << >>]>>
             ELSE <<[id |-> bytes[pos], content |-> SubSeq(bytes, size.next, last)]>>
                      \o ReadSections(bytes, last + 1)

\* C12: a generated module begins with 00 61 73 6D 01 00 00 00 and is
\* followed by exactly the sections type(1), import(2), function(3),
\* export(7), code(10) in that order, ids strictly increasing, each framed
\* as id, ULEB128(length of content), content; the code section holds one
\* function whose body-size field is the length of the body.
C12_ModuleFraming ==
    bin.op = "module" =>
        LET sections == ReadSections(bin.bytes, 9)
        IN  /\ Len(bin.bytes) >= 8
            /\ SubSeq(bin.bytes, 1, 8) = <<0, 97, 115, 109, 1, 0, 0, 0>>
            /\ [i \in 1..Len(sections) |-> sections[i].id] = <<1, 2, 3, 7, 10>>
            /\ \A i \in 1..(Len(sections) - 1) : sections[i].id < sections[i + 1].id
            /\ LET content  == sections[5].content
                   count    == ReadULEB(content, 1)
                   bodySize == ReadULEB(content, count.next)
               IN  /\ count.value = 1
                   /\ bodySize.value = Len(content) - bodySize.next + 1
                   /\ bodySize.value > 0

\* C12 witness: a module for shared memory was generated whose code section
\* is long enough for a two-byte length.
C12_Witness ==
    /\ bin.op = "module"
    /\ bin.shared
    /\ Len(ReadSections(bin.bytes, 9)) = 5
    /\ Len(ReadSections(bin.bytes, 9)[5].content) >= 128
    /\ ReadSections(bin.bytes, 9)[2].content[Len(ReadSections(bin.bytes, 9)[2].content) - 2] = 3

(***************************************************************************)
(* SpecSwitches: the same copy under each setting of verifyResults and     *)
(* useCompiled, with the default back-end and with the binary one.         *)
(***************************************************************************)
SwitchOptions ==
    { Options(verify, compiled, type, << >>, "none") :
        verify \in {<< >>, <<FALSE>>}, compiled \in {<< >>, <<FALSE>>},
        type \in {<< >>, <<NameWasm>>} }

InitSwitches == InitWith({InitBuffers(p, 8, 8) : p \in 0..MaxPattern}, {Env(FALSE, FALSE)})

SwitchCopy ==
    /\ call.pc = "idle"
    /\ \E a \in ValidArgs(heap, "src", "dst") :
           \E o \in SwitchOptions : Bitblt("src", "dst", a, o)

NextSwitches == SwitchCopy \/ ExecuteResume \/ ThenVerify

SpecSwitches == InitSwitches /\ [][NextSwitches]_vars

\* C15: whatever verifyResults and useCompiled are, a settled bitblt call
\* on in-bounds inputs leaves the destination equal to the reference's
\* result; with useCompiled false no generator is created or compiled.
C15_SwitchesAgree ==
    BitbltDone =>
        /\ heap[call.d] = Oracle
        /\ ~call.opts.useCompiled => (call.generator = NoGenerator /\ genLog = NoLog)

(***************************************************************************)
(* SpecConfig: the caller assigns fields of the exported config object,    *)
(* before a call and while an asynchronous call is pending; calls name the *)
(* back-end and the compiler flags in their options or leave them to       *)
(* config.                                                                 *)
(***************************************************************************)
ConfigOptions ==
    {NoOptions,
     Options(<< >>, << >>, <<NameWasm>>, << >>, "none"),
     Options(<< >>, << >>, <<NameWasm>>, <<CompilerFlags(TRUE, TRUE, FALSE, FALSE)>>, "none")}

\* the values the caller assigns to config
ConfigValues ==
    { [DefaultConfig EXCEPT !.verifyResults = v, !.useCompiled = u, !.generatorType = t,
                            !.compiler = c] :
        v \in BOOLEAN, u \in BOOLEAN, t \in {NameJavascript, NameWasm},
        c \in {DefaultConfig.compiler, CompilerFlags(TRUE, TRUE, TRUE, FALSE)} }

InitConfig == InitWith({InitBuffers(p, 8, 8) : p \in 0..MaxPattern}, {Env(FALSE, FALSE)})

\* config.verifyResults = ..., config.useCompiled = ..., setGeneratorType(...),
\* config.compiler.unrollLoops = ...: one field is assigned
SetConfig ==
    /\ call.pc \in {"idle", "pending", "resolved"}
    /\ \E c \in ConfigValues :
           /\ Cardinality({f \in DOMAIN config : c[f] # config[f]}) = 1
           /\ config' = c
    /\ UNCHANGED <<heap, call, userGen, genLog, keys, bin, tasks, defaultGenerator>>

ConfigBitblt ==
    /\ call.pc = "idle"
    /\ \E a \in CacheArgs(heap) : \E o \in ConfigOptions : Bitblt("src", "dst", a, o)

NextConfig == SetConfig \/ ConfigBitblt \/ ExecuteResume \/ ThenVerify

SpecConfig == InitConfig /\ [][NextConfig]_vars

\* the class the factory makes for a recognized name
ClassFor(type) == createGenerator(type, << >>).generator.class

\* what a call does follows the options merged when it started
ActsOnMerge ==
    (call.kind = "bitblt" /\ call.pc # "idle") =>
        /\ ~call.opts.useCompiled => (call.generator = NoGenerator /\ call.ret = "value")
        /\ call.opts.useCompiled =>
               /\ call.type = call.opts.generatorType
               /\ call.generator.class = ClassFor(call.opts.generatorType)
               /\ call.generator.options = call.opts.compiler
               /\ call.generator.class = "WASMGenerator" =>
                      call.key = WasmExecuteKey(NewGenerator("WASMGenerator", call.opts.compiler),
                                                call.args)
        /\ (call.pc = "settled" /\ call.opts.useCompiled) =>
               IF call.opts.verifyResults
               THEN call.outcome = "ok" <=> buffersAreEqual(heap[call.d], call.scratch)
               ELSE call.outcome = "ok"

\* a step of bitblt leaves config alone, starts from the merge of config
\* and the options, and keeps that merge until the call settles
MergeKept ==
    /\ call' # call => config' = config
    /\ (call.pc = "idle" /\ call'.kind = "bitblt") =>
           \E o \in ConfigOptions : call'.opts = MergeOptions(config, o)
    /\ call.pc \in {"pending", "resolved"} =>
           /\ call'.opts = call.opts
           /\ call'.type = call.type
           /\ call'.key = call.key
           /\ call'.generator.class = call.generator.class
           /\ call'.generator.options = call.generator.options

\* C16: bitblt never modifies config; a call's back-end, verification and
\* compiler flags are those of the merge of config and options made when
\* the call started, whatever is assigned to config while the call is
\* pending.
C16_OptionsFixedAtStart == []ActsOnMerge /\ [][MergeKept]_vars

\* C16 witness: a binary call started with verification on (from config)
\* and settled by the verification after config.verifyResults, the
\* back-end name and the compiler flags in config had all been changed.
C16_Witness ==
    /\ BitbltDone
    /\ Binary
    /\ call.ret = "promise"
    /\ call.opts.verifyResults /\ ~config.verifyResults
    /\ call.opts.compiler # config.compiler
    /\ call.outcome = "VerificationFailed"

(***************************************************************************)
(* SpecMemory: the binary back-end's copying path on buffers that fill,    *)
(* or together exceed, the one page of memory executeWithCopy creates.     *)
(***************************************************************************)
\* Uint32Array lengths of the source and the destination that together
\* are exactly one page, and one word more than a page
PageLengths ==
    LET half == PageBytes \div 8
    IN  {<<half, half>>, <<half + 1, half>>}

MemoryBuffers ==
    {InitBuffers(p, WordBits, WordBits) : p \in 0..MaxPattern}
    \cup { [src |-> NewBuffer(0, n[1]), dst |-> NewBuffer(1, n[2])] : n \in PageLengths }

\* copies between bitmaps one word wide that fill their buffers
MemoryArgs(h) ==
    { Args(WordBits, Len(h.src), 0, 0, WordBits, dx, 0, w, 1) :
        dx \in (IF Len(h.src) > MaxRows THEN {0} ELSE {0, 5, 6}),
        w \in (IF Len(h.src) > MaxRows THEN {1} ELSE 1..MaxRectW) }

\* the page-sized buffers are copied with verification off: the scan for
\* the first differing pixel is not what these calls are about
MemoryOptions(h) ==
    {Options(<<FALSE>>, << >>, <<NameWasm>>, << >>, "none")}
    \cup (IF Len(h.src) > MaxRows THEN {}
          ELSE {Options(<< >>, << >>, <<NameWasm>>, << >>, "none")})

InitMemory == InitWith(MemoryBuffers, {Env(FALSE, FALSE)})

MemoryBitblt ==
    /\ call.pc = "idle"
    /\ \E a \in MemoryArgs(heap) : \E o \in MemoryOptions(heap) : Bitblt("src", "dst", a, o)

NextMemory == MemoryBitblt \/ ExecuteResume \/ ThenVerify

SpecMemory == InitMemory /\ [][NextMemory]_vars

\* the pages a memory declared with maximum 16 can grow to
MaxPages == 16

\* C17: the copying path stages into a memory that holds both buffers,
\* growing it within the 16-page maximum when one page is too small: a
\* call whose buffers fit 16 pages does not fail on staging, and a call
\* whose buffers do not fit fails with a memory-capacity error.
C17_MemoryHoldsBuffers ==
    (BitbltDone /\ Binary) =>
        IF 4 * (Len(call.pre[call.s]) + Len(call.pre[call.d])) <= MaxPages * PageBytes
        THEN call.outcome \notin {"RangeError", "MemoryCapacity"}
        ELSE call.outcome = "MemoryCapacity"

(***************************************************************************)
(* SpecCompile: compile called directly on one generator instance.  The    *)
(* textual compile runs to completion when called; the binary compile is   *)
(* an async function that awaits initialize() before it looks into the     *)
(* cache and awaits WebAssembly.compile and WebAssembly.instantiate before *)
(* it stores the function, so calls of it overlap.  An artifact is named   *)
(* by the number of the call that created it.                              *)
(***************************************************************************)
MaxCompiles == 3

\* parameter records: the second has the first's binary key (the binary
\* key leaves inlineConstants out), the third has the first's textual key
CompileParams ==
    LET p == ExecuteParams(FactoryArgs, DefaultConfig.compiler)
    IN  {p, [p EXCEPT !.inlineConstants = FALSE], [p EXCEPT !.useSIMD = TRUE]}

InitCompile ==
    /\ heap = InitBuffers(0, 8, 8)
    /\ call = IdleCall(heap, Env(FALSE, FALSE))
    /\ userGen \in {NewGenerator(class, DefaultConfig.compiler) :
                       class \in {"JavaScriptGenerator", "WASMGenerator"}}
    /\ genLog = NoLog
    /\ config = DefaultConfig
    /\ defaultGenerator = DefaultGenerator
    /\ keys = NoKeys
    /\ bin = NoBin
    /\ tasks = << >>

Task(params, key, pc, artifact) ==
    [params |-> params, key |-> key, pc |-> pc, artifact |-> artifact]

\* JavaScriptGenerator.compile(params)
JsCompile ==
    /\ userGen.class = "JavaScriptGenerator"
    /\ Len(tasks) < MaxCompiles
    /\ \E params \in CompileParams :
         LET cacheKey == JsGetCacheKey(params)
         IN  IF cacheKey \in DOMAIN userGen.cache
             THEN /\ tasks' = Append(tasks, Task(params, cacheKey, "done",
                                                 userGen.cache[cacheKey]))
                  /\ UNCHANGED <<userGen, genLog>>
             ELSE /\ genLog' = Bump(genLog, cacheKey)
                  /\ userGen' = [userGen EXCEPT
                                    !.cache = CachePut(@, cacheKey, Len(tasks) + 1)]
                  /\ tasks' = Append(tasks, Task(params, cacheKey, "done", Len(tasks) + 1))
    /\ UNCHANGED <<heap, call, config, keys, bin, defaultGenerator>>

\* WASMGenerator.compile(params) up to await this.initialize()
WasmCompileCall ==
    /\ userGen.class = "WASMGenerator"
    /\ Len(tasks) < MaxCompiles
    /\ \E params \in CompileParams :
           tasks' = Append(tasks, Task(params, WasmGetCacheKey(params), "initialize", 0))
    /\ UNCHANGED <<heap, call, userGen, genLog, config, keys, bin, defaultGenerator>>

\* after await this.initialize(): the lookup; on a miss generate, up to
\* await WebAssembly.compile(wasmBinary)
WasmCompileLookup ==
    \E i \in 1..Len(tasks) :
        /\ tasks[i].pc = "initialize"
        /\ IF tasks[i].key \in DOMAIN userGen.cache
           THEN /\ tasks' = [tasks EXCEPT ![i].pc = "done",
                                          ![i].artifact = userGen.cache[tasks[i].key]]
                /\ UNCHANGED genLog
           ELSE /\ tasks' = [tasks EXCEPT ![i].pc = "compiling"]
                /\ genLog' = Bump(genLog, tasks[i].key)
        /\ UNCHANGED <<heap, call, userGen, config, keys, bin, defaultGenerator>>

\* after await WebAssembly.instantiate(...): compiledModules.set and return
WasmCompileStore ==
    \E i \in 1..Len(tasks) :
        /\ tasks[i].pc = "compiling"
        /\ userGen' = [userGen EXCEPT !.cache = CachePut(@, tasks[i].key, i)]
        /\ tasks' = [tasks EXCEPT ![i].pc = "done", ![i].artifact = i]
        /\ UNCHANGED <<heap, call, genLog, config, keys, bin, defaultGenerator>>

NextCompile == JsCompile \/ WasmCompileCall \/ WasmCompileLookup \/ WasmCompileStore \/ ClearCache

SpecCompile == InitCompile /\ [][NextCompile]_vars

\* the step is generator.clearCache()
Clears == userGen.cache # NoCache /\ userGen'.cache = NoCache

\* call i looks its key up in this step: the textual compile when it is
\* called, the binary compile when it resumes after initialize()
Looks(i) ==
    IF i \in 1..Len(tasks)
    THEN tasks[i].pc = "initialize" /\ tasks'[i].pc # "initialize"
    ELSE i = Len(tasks') /\ tasks'[i].pc = "done"

ReuseOptions ==
    {Options(<<FALSE>>, << >>, << >>, << >>, "user"),
     Options(<< >>, << >>, << >>, << >>, "user")}

\* one-pixel copies from the first source row
ReuseArgs(h) ==
    {a \in ValidArgs(h, "src", "dst") :
        a.width = 1 /\ a.height = 1 /\ a.srcX = 0 /\ a.srcY = 0 /\ a.dstX = 0}

InitReuse == InitWith({InitBuffers(p, 8, 40) : p \in 0..MaxPattern}, {Env(FALSE, FALSE)})

ReuseCreate ==
    /\ call.pc = "idle"
    /\ userGen = NoGenerator
    /\ CreateGenerator(NameWasm, << >>)

ReuseBitblt ==
    /\ call.pc = "idle"
    /\ \E a \in ReuseArgs(heap) : \E o \in ReuseOptions : Bitblt("src", "dst", a, o)

\* between two calls the caller fills its buffers with other contents
ReuseFill ==
    /\ call.pc = "idle"
    /\ call.n > 0
    /\ \E p \in 0..MaxPattern :
           /\ heap' = InitBuffers(p, 8, 40)
           /\ heap' # heap
    /\ call' = [call EXCEPT !.pre = heap']
    /\ UNCHANGED <<userGen, genLog, config, keys, bin, tasks, defaultGenerator>>

NextReuse == ReuseCreate \/ ReuseBitblt \/ ReuseFill \/ ExecuteResume \/ ThenVerify \/ Again

SpecReuse == InitReuse /\ [][NextReuse]_vars

\* what execute leaves in the buffers when the function it calls works on
\* the memory this call staged: the result of the same call on an instance
\* that has compiled nothing yet
ExecutedOnStagedMemory ==
    WasmExecute(NewGenerator(call.generator.class, call.generator.options), call.key,
                call.env, call.pre, call.s, call.d, call.args).heap

\* C19: for every execute call on a binary generator instance, the first
\* or a later one with a cached fingerprint, the function called works on
\* the memory the call staged its buffers into and reads the destination
\* back from: the destination is left as the function leaves it.
C19_StagedMemoryIsCalled ==
    (Executed /\ Binary) => heap[call.d] = ExecutedOnStagedMemory[call.d]

\* the memory executeWithCopy stages the two buffers of the call into
StagedMemory ==
    MemStage(MemStage(NewMemory(1), call.pre[call.s], 0),
             call.pre[call.d], Len(call.pre[call.s]))

\* srcBit as the body computes it for pixel (x, y) on the staged memory
BodySrcBit(x, y) ==
    wasmSrcBit(StagedMemory, WasmParams(0, Len(call.pre[call.s]), call.args),
               x, I32Add(call.args.srcY, y))

\* C20: for each pixel (x, y) of the rectangle the srcBit the emitted body
\* computes is bit (srcX + x) mod 32 of the word at byte address
\* srcPtr + 4 * (((srcX + x) >> 5) + (srcY + y) * srcStrideWords), that is,
\* getPixel of the staged source bitmap at (srcX + x, srcY + y).
C20_SrcBitIsSourcePixel ==
    (Executed /\ Binary) =>
        \A y \in 0..(call.args.height - 1) : \A x \in 0..(call.args.width - 1) :
            BodySrcBit(x, y) = getPixel(call.pre[call.s], call.args.srcWidth,
                                        call.args.srcX + x, call.args.srcY + y)

\* the byte address the body loads and stores the destination word of pixel
\* (x, y) at, called as executeWithCopy calls it
BodyDstAddr(x, y) ==
    wasmDstAddr(WasmParams(0, Len(call.pre[call.s]), call.args),
                x, I32Add(call.args.dstY, y))

\* C21: for each pixel (x, y) the body loads and stores the destination
\* word at the address of memory word
\* dstOffset + ((dstX + x) >> 5) + (dstY + y) * dstStrideWords, with
\* dstOffset = srcBuffer.length, so every store lands inside the staged
\* destination and never inside the staged source.
C21_StoreInStagedDestination ==
    (Executed /\ Binary) =>
        LET dstOffset == Len(call.pre[call.s])
            dstEnd    == dstOffset + Len(call.pre[call.d])
        IN  \A y \in 0..(call.args.height - 1) : \A x \in 0..(call.args.width - 1) :
                /\ BodyDstAddr(x, y) =
                       4 * (dstOffset + FloorDiv32(call.args.dstX + x)
                            + (call.args.dstY + y) * CeilDiv32(call.args.dstWidth))
                /\ BodyDstAddr(x, y) >= 4 * dstOffset
                /\ BodyDstAddr(x, y) + 4 <= 4 * dstEnd

(***************************************************************************)
(* SpecBody: the body generateBitBLTFunctionBody emits, read instruction   *)
(* by instruction the way the runtime validates it in WebAssembly.compile: *)
(* a control stack of frames (kind, operand-stack height at entry, whether *)
(* the rest of the frame is unreachable) and the operand-stack height.     *)
(***************************************************************************)
Frame(kind, base) == [kind |-> kind, base |-> base, dead |-> FALSE]

\* the position of the first instruction: after the count of local groups
\* and the (count, type) pair of every group
RECURSIVE SkipLocals(_, _, _)
SkipLocals(bytes, pos, groups) ==
    IF groups = 0 THEN pos
    ELSE SkipLocals(bytes, ReadULEB(bytes, pos).next + 1, groups - 1)

CodeStart(bytes) ==
    LET count == ReadULEB(bytes, 1)
    IN  SkipLocals(bytes, count.next, count.value)

BinaryOps ==
    {Opcodes.I32_EQ, Opcodes.I32_NE, Opcodes.I32_LT_S, Opcodes.I32_LT_U, Opcodes.I32_GT_S,
     Opcodes.I32_GT_U, Opcodes.I32_LE_S, Opcodes.I32_LE_U, Opcodes.I32_GE_S, Opcodes.I32_GE_U,
     Opcodes.I32_ADD, Opcodes.I32_SUB, Opcodes.I32_MUL, Opcodes.I32_DIV_S, Opcodes.I32_DIV_U,
     Opcodes.I32_REM_S, Opcodes.I32_REM_U, Opcodes.I32_AND, Opcodes.I32_OR, Opcodes.I32_XOR,
     Opcodes.I32_SHL, Opcodes.I32_SHR_S, Opcodes.I32_SHR_U, Opcodes.I32_ROTL, Opcodes.I32_ROTR}

PlainOps ==
    BinaryOps \cup {Opcodes.DROP, Opcodes.LOCAL_GET, Opcodes.LOCAL_SET, Opcodes.LOCAL_TEE,
                    Opcodes.I32_LOAD, Opcodes.I32_STORE, Opcodes.I32_CONST, Opcodes.I32_EQZ}

\* operands an instruction takes from the stack and results it leaves
Pops(opcode) ==
    IF opcode \in BinaryOps \/ opcode = Opcodes.I32_STORE THEN 2
    ELSE IF opcode \in {Opcodes.LOCAL_GET, Opcodes.I32_CONST} THEN 0
    ELSE 1

Pushes(opcode) ==
    IF opcode \in {Opcodes.DROP, Opcodes.LOCAL_SET, Opcodes.I32_STORE} THEN 0 ELSE 1

\* the position after the instruction at pos: one LEB128 immediate for
\* local.*, i32.const, br and br_if, two (align, offset) for load and
\* store, one block-type byte for block, loop and if
NextInstruction(bytes, pos) ==
    LET opcode == bytes[pos]
    IN  IF opcode \in {Opcodes.LOCAL_GET, Opcodes.LOCAL_SET, Opcodes.LOCAL_TEE,
                       Opcodes.I32_CONST, Opcodes.BR, Opcodes.BR_IF}
        THEN ReadULEB(bytes, pos + 1).next
        ELSE IF opcode \in {Opcodes.I32_LOAD, Opcodes.I32_STORE}
        THEN ReadULEB(bytes, ReadULEB(bytes, pos + 1).next).next
        ELSE IF opcode \in {Opcodes.BLOCK, Opcodes.LOOP, Opcodes.IF_}
        THEN pos + 2
        ELSE pos + 1

InitBody ==
    /\ heap = InitBuffers(0, 8, 8)
    /\ call = IdleCall(heap, Env(FALSE, FALSE))
    /\ userGen = NoGenerator
    /\ genLog = NoLog
    /\ config = DefaultConfig
    /\ defaultGenerator = DefaultGenerator
    /\ keys = NoKeys
    /\ tasks = << >>
    /\ bin \in {[op |-> "options", options |-> o, shared |-> FALSE, bytes |-> << >>] :
                    o \in ModuleOptions}

Reading == bin.op = "body" /\ bin.pc <= Len(bin.bytes)
Opcode == bin.bytes[bin.pc]
Top == bin.ctrl[Len(bin.ctrl)]
Label == bin.bytes[bin.pc + 1]

\* the runtime rejects the body: no instruction is left, or the
\* instruction cannot be typed
Rejected ==
    \/ bin.pc > Len(bin.bytes)
    \/ bin.ctrl = << >>
    \/ /\ Opcode \in PlainOps \cup {Opcodes.IF_, Opcodes.BR_IF}
       /\ ~Top.dead
       /\ bin.height - (IF Opcode \in PlainOps THEN Pops(Opcode) ELSE 1) < Top.base
    \/ Opcode \in {Opcodes.BR, Opcodes.BR_IF} /\ Label >= Len(bin.ctrl)
    \/ Opcode = Opcodes.ELSE_ /\ Top.kind # "if"
    \/ Opcode \notin PlainOps \cup {Opcodes.BLOCK, Opcodes.LOOP, Opcodes.IF_, Opcodes.ELSE_,
                                   Opcodes.END, Opcodes.BR, Opcodes.BR_IF}

Advance(height, ctrl) ==
    /\ bin' = [bin EXCEPT !.pc = NextInstruction(bin.bytes, bin.pc),
                          !.height = height, !.ctrl = ctrl]
    /\ UNCHANGED <<heap, call, userGen, genLog, config, keys, tasks, defaultGenerator>>

\* generateBitBLTFunctionBody(options), handed to the runtime
BodyGenerate ==
    /\ bin.op = "options"
    /\ LET bytes == generateBitBLTFunctionBody(bin.options)
       IN  bin' = [op |-> "body", options |-> bin.options, bytes |-> bytes,
                   pc |-> CodeStart(bytes), ctrl |-> <<Frame("func", 0)>>, height |-> 0]
    /\ UNCHANGED <<heap, call, userGen, genLog, config, keys, tasks, defaultGenerator>>

Popped(n) == IF bin.height - n < Top.base THEN Top.base ELSE bin.height - n

\* local.*, i32.const, loads, stores and operators
BodyPlain ==
    /\ Reading /\ ~Rejected
    /\ Opcode \in PlainOps
    /\ Advance(Popped(Pops(Opcode)) + Pushes(Opcode), bin.ctrl)

\* block, loop, if
BodyOpen ==
    /\ Reading /\ ~Rejected
    /\ Opcode \in {Opcodes.BLOCK, Opcodes.LOOP, Opcodes.IF_}
    /\ LET height == IF Opcode = Opcodes.IF_ THEN Popped(1) ELSE bin.height
           kind   == IF Opcode = Opcodes.BLOCK THEN "block"
                     ELSE IF Opcode = Opcodes.LOOP THEN "loop" ELSE "if"
       IN  Advance(height, Append(bin.ctrl, Frame(kind, height)))

BodyElse ==
    /\ Reading /\ ~Rejected
    /\ Opcode = Opcodes.ELSE_
    /\ Advance(Top.base, [bin.ctrl EXCEPT ![Len(bin.ctrl)] = Frame("else", Top.base)])

\* end: the frame is closed; the end of the function frame ends the body
BodyEnd ==
    /\ Reading /\ ~Rejected
    /\ Opcode = Opcodes.END
    /\ bin' = [bin EXCEPT !.pc = bin.pc + 1, !.height = Top.base,
                          !.ctrl = SubSeq(bin.ctrl, 1, Len(bin.ctrl) - 1),
                          !.op = IF Len(bin.ctrl) = 1 /\ bin.pc = Len(bin.bytes)
                                 THEN "validated" ELSE "body"]
    /\ UNCHANGED <<heap, call, userGen, genLog, config, keys, tasks, defaultGenerator>>

\* br l makes the rest of the frame unreachable; br_if l takes its condition
BodyBranch ==
    /\ Reading /\ ~Rejected
    /\ Opcode \in {Opcodes.BR, Opcodes.BR_IF}
    /\ IF Opcode = Opcodes.BR
       THEN Advance(Top.base, [bin.ctrl EXCEPT ![Len(bin.ctrl)].dead = TRUE])
       ELSE Advance(Popped(1), bin.ctrl)

NextBody ==
    BodyGenerate \/ BodyPlain \/ BodyOpen \/ BodyElse \/ BodyEnd \/ BodyBranch

SpecBody == InitBody /\ [][NextBody]_vars

\* the frame a branch with label l leaves or continues
Target(l) == bin.ctrl[Len(bin.ctrl) - l]

\* values on the operand stack above the entry height of the current frame
Leftover == bin.height - Top.base

Nested ==
    /\ bin.op = "body" => ~Rejected
    /\ (Reading /\ Opcode = Opcodes.BR) => Label = 0 /\ Target(0).kind = "loop"
    /\ (Reading /\ Opcode = Opcodes.BR_IF) =>
           Label = 1 /\ Target(0).kind = "loop" /\ Target(1).kind = "block"
    /\ (Reading /\ Opcode \in {Opcodes.END, Opcodes.ELSE_} /\ ~Top.dead) => Leftover = 0

\* C22 as stated: blocks, loops and ifs are closed in nested order, br 0
\* continues the innermost loop, br_if 1 exits the block enclosing it, and
\* the operand stack holds nothing left over at an end and at the back-edge
\* branch of a loop.
C22_StackEmptyAtBackEdge ==
    /\ Nested
    /\ (Reading /\ Opcode = Opcodes.BR) => Leftover = 0

\* the inner loop is the fifth frame: function, block, loop, block, loop
InnerLoop == Len(bin.ctrl) = 5

\* C22 (amended): the nesting and the branch targets are as stated and the
\* operand stack is empty at every end and else and at the back-edge branch
\* of the outer loop; at the back-edge branch of the inner loop two values
\* are left (the unused destination element sum and dstBitPos kept by
\* local.tee), which the branch discards.
C22_NestedAndBalanced ==
    /\ Nested
    /\ (Reading /\ Opcode = Opcodes.BR) => Leftover = (IF InnerLoop THEN 2 ELSE 0)

\* C22 witness: the back-edge branch of the inner loop is reached with the
\* two values on the stack
C22_Witness == Reading /\ Opcode = Opcodes.BR /\ InnerLoop /\ Leftover = 2

(***************************************************************************)
(* SpecEmit: the textual generator used directly.  A caller compiles a     *)
(* parameter record that freezes some of the dimensions and sets the       *)
(* unrollLoops and inlineConstants flags, then invokes the function with   *)
(* arguments that agree with the frozen values.                            *)
(***************************************************************************)
\* rectangles inside an 8-pixel-wide source and a 40-pixel-wide destination
\* of MaxRows rows: empty, one pixel wide and MaxRectW wide, 0..MaxRows high
EmitArgs ==
    {Args(8, MaxRows, 0, t[3], 40, 4, MaxRows - t[2] - t[3], t[1], t[2]) :
        t \in {u \in {0, 1, MaxRectW} \X (0..MaxRows) \X (0..MaxRows) :
                  u[3] \in {0, MaxRows - u[2]}}}

\* the record that freezes the dimensions named in frozen at a's values
FreezeAt(a, frozen, unroll, inline) ==
    LET all == ExecuteParams(a, CompilerFlags(unroll, inline, TRUE, FALSE))
    IN  [n \in DOMAIN all |-> IF n \in DimNameSet \ frozen THEN << >> ELSE all[n]]

Agrees(a, params) ==
    \A n \in DimNameSet : Frozen(params[n]) => Val(params[n]) = a[n]

InitEmit == InitWith({InitBuffers(1, 8, 40)}, {Env(FALSE, FALSE)})

\* generator.compile(params): generate and new Function
EmitCompile ==
    /\ tasks = << >>
    /\ \E a \in EmitArgs : \E frozen \in SUBSET DimNameSet :
         \E unroll \in BOOLEAN : \E inline \in BOOLEAN :
           LET params == FreezeAt(a, frozen, unroll, inline)
           IN  tasks' = <<Task(params, JsGetCacheKey(params), "done", params)>>
    /\ UNCHANGED <<heap, call, userGen, genLog, config, keys, bin, defaultGenerator>>

\* the compiled function called on the two buffers
EmitInvoke ==
    /\ tasks # << >>
    /\ call.pc = "idle"
    /\ \E a \in EmitArgs :
         /\ Agrees(a, tasks[1].params)
         /\ LET run == generatedBitBLT(tasks[1].artifact, heap, "src", "dst", a)
            IN  /\ heap' = run.heap
                /\ call' = [call EXCEPT
                               !.pc = "settled", !.kind = "generated", !.args = a,
                               !.pre = heap, !.n = @ + 1,
                               !.ret = IF run.error = "none" THEN "value" ELSE "throw",
                               !.outcome = IF run.error = "none" THEN "ok" ELSE run.error]
    /\ UNCHANGED <<userGen, genLog, config, keys, bin, tasks, defaultGenerator>>

NextEmit == EmitCompile \/ EmitInvoke

SpecEmit == InitEmit /\ [][NextEmit]_vars

EmittedDone == call.pc = "settled" /\ call.kind = "generated"

\* C23: for every subset of frozen dimensions and every combination of
\* unrollLoops and inlineConstants, the emitted routine called with
\* arguments that agree with the frozen values completes and leaves the
\* oracle's result, unrolled rows with a run-time width included.
C23_EmittedMatchesOracle ==
    EmittedDone =>
        /\ call.outcome = "ok"
        /\ heap = referenceBitBLT(call.pre, call.s, call.d, call.args)

(***************************************************************************)
(* SpecAnalyze: analyzeOperation of the two back-ends called on parameter  *)
(* records whose width, height, srcX and dstX are frozen or not.  keys.p   *)
(* is the record as it was passed, the task holds the record as the call   *)
(* left it and the analysis returned.                                      *)
(***************************************************************************)
\* WASMGenerator.analyzeOperation(params); undefined % 32 is NaN, which is
\* not === 0.  simd is what WebAssembly.validate answers for the probe
\* module, which depends on the runtime.
WasmAnalyzeOperation(params, simd) ==
    LET aligned == /\ Frozen(params.width) /\ Val(params.width) % WordBits = 0
                   /\ Frozen(params.srcX) /\ Val(params.srcX) % WordBits = 0
                   /\ Frozen(params.dstX) /\ Val(params.dstX) % WordBits = 0
    IN  [canOptimize |-> aligned \/ simd,
         optimizations |-> (IF aligned THEN <<"word-aligned">> ELSE << >>)
                           \o (IF simd THEN <<"simd">> ELSE << >>),
         params |-> params]

AnalyzeWidths == {<< >>, <<0>>, <<1>>, <<8>>, <<13>>, <<27>>, <<32>>, <<64>>, <<65>>}
AnalyzeHeights == {<< >>, <<0>>, <<1>>, <<2>>, <<3>>, <<5>>, <<8>>}
AnalyzeSrcX == {<< >>, <<0>>, <<3>>, <<32>>}
AnalyzeDstX == {<< >>, <<0>>, <<5>>, <<32>>}

AnalyzeParams ==
    {[NothingFrozen EXCEPT !.width = w, !.height = ht, !.srcX = sx, !.dstX = dx,
                           !.unrollLoops = ul, !.optimizeAlignedCopy = oa,
                           !.inlineConstants = TRUE] :
        w \in AnalyzeWidths, ht \in AnalyzeHeights, sx \in AnalyzeSrcX,
        dx \in AnalyzeDstX, ul \in BOOLEAN, oa \in BOOLEAN}

InitAnalyze ==
    /\ heap = InitBuffers(0, 8, 8)
    /\ call = IdleCall(heap, Env(FALSE, FALSE))
    /\ userGen = NoGenerator
    /\ genLog = NoLog
    /\ config = DefaultConfig
    /\ defaultGenerator = DefaultGenerator
    /\ bin = NoBin
    /\ tasks = << >>
    /\ keys \in {[p |-> <<p>>, q |-> <<p>>, js |-> << >>, wasm |-> << >>] :
                    p \in AnalyzeParams}

Analysis(r) == [canOptimize |-> r.canOptimize, optimizations |-> r.optimizations]

\* new JavaScriptGenerator().analyzeOperation(params)
JsAnalyze ==
    /\ tasks = << >>
    /\ LET r == JsAnalyzeOperation(keys.p[1])
       IN  tasks' = <<Task(r.params, JsGetCacheKey(r.params), "js", Analysis(r))>>
    /\ UNCHANGED <<heap, call, userGen, genLog, config, keys, bin, defaultGenerator>>

\* new WASMGenerator().analyzeOperation(params)
WasmAnalyze ==
    /\ tasks = << >>
    /\ \E simd \in BOOLEAN :
         LET r == WasmAnalyzeOperation(keys.p[1], simd)
         IN  tasks' = <<Task(r.params, WasmGetCacheKey(r.params), "wasm", Analysis(r))>>
    /\ UNCHANGED <<heap, call, userGen, genLog, config, keys, bin, defaultGenerator>>

NextAnalyze == JsAnalyze \/ WasmAnalyze

SpecAnalyze == InitAnalyze /\ [][NextAnalyze]_vars

Analyzed == tasks # << >>
Passed == keys.p[1]
Reports(flag) ==
    \E i \in DOMAIN tasks[1].artifact.optimizations :
        tasks[1].artifact.optimizations[i] = flag
MultipleOf32(v) == Frozen(v) /\ Val(v) % WordBits = 0

\* C24: either analyzer reports word-aligned exactly when width is a
\* multiple of 32 and srcX and dstX are both frozen and both multiples of
\* 32; never when srcX or dstX is not frozen or not a multiple of 32.
C24_WordAlignedExactly ==
    Analyzed =>
        (Reports("word-aligned") <=>
            /\ MultipleOf32(Passed.width)
            /\ MultipleOf32(Passed.srcX)
            /\ MultipleOf32(Passed.dstX))

\* the name under which the small-region flag is reported
UnrollFlag == "unroll-loops"

\* C25: the analyzer of every back-end reports the small-region unroll flag
\* exactly when width and height are both frozen and width * height <= 64
\* (0 included).
C25_UnrollSmallExactly ==
    Analyzed =>
        (Reports(UnrollFlag) <=>
            /\ Frozen(Passed.width) /\ Frozen(Passed.height)
            /\ Val(Passed.width) * Val(Passed.height) <= 64)

\* C26: the analyzer only returns flags: the record it was given is as it
\* was passed, so its compile flags and its fingerprint are unchanged.
C26_AnalyzerLeavesRecord ==
    Analyzed =>
        /\ tasks[1].params = Passed
        /\ tasks[1].pc = "js" => tasks[1].key = JsGetCacheKey(Passed)
        /\ tasks[1].pc = "wasm" => tasks[1].key = WasmGetCacheKey(Passed)

(***************************************************************************)
(* SpecFailure: compile called on one generator instance when the runtime  *)
(* may refuse to materialize the artifact: new Function throws (the text   *)
(* does not parse, or the page forbids evaluating text), or                *)
(* WebAssembly.compile / WebAssembly.instantiate rejects (a binary or an   *)
(* import object passed by the caller that does not fit).                  *)
(***************************************************************************)
\* the try block of compile: compiledFunctions.set / compiledModules.set is
\* reached only when the statements before it did not throw
StoredBeforeMaterializing(cache, key, artifact, materialized) == CachePut(cache, key, artifact)

StoredByTry(cache, key, artifact, materialized) ==
    IF materialized THEN CachePut(cache, key, artifact) ELSE cache

\* JavaScriptGenerator.compile(params), new Function succeeding or throwing
JsCompileTry ==
    /\ userGen.class = "JavaScriptGenerator"
    /\ Len(tasks) < MaxCompiles
    /\ \E params \in CompileParams : \E materialized \in BOOLEAN :
         LET cacheKey == JsGetCacheKey(params)
             new == Len(tasks) + 1
         IN  IF cacheKey \in DOMAIN userGen.cache
             THEN /\ tasks' = Append(tasks, Task(params, cacheKey, "done",
                                                 userGen.cache[cacheKey]))
                  /\ UNCHANGED <<userGen, genLog>>
             ELSE /\ genLog' = Bump(genLog, cacheKey)
                  /\ userGen' = [userGen EXCEPT
                                    !.cache = StoredByTry(@, cacheKey, new, materialized)]
                  /\ tasks' = Append(tasks,
                                     Task(params, cacheKey,
                                          IF materialized THEN "done" ELSE "failed",
                                          IF materialized THEN new ELSE 0))
    /\ UNCHANGED <<heap, call, config, keys, bin, defaultGenerator>>

\* WASMGenerator.compile after await WebAssembly.compile / instantiate:
\* compiledModules.set and return, or the catch block
WasmCompileTry ==
    \E i \in 1..Len(tasks) : \E materialized \in BOOLEAN :
        /\ tasks[i].pc = "compiling"
        /\ userGen' = [userGen EXCEPT
                          !.cache = StoredByTry(@, tasks[i].key, i, materialized)]
        /\ tasks' = [tasks EXCEPT ![i].pc = IF materialized THEN "done" ELSE "failed",
                                  ![i].artifact = IF materialized THEN i ELSE 0]
        /\ UNCHANGED <<heap, call, genLog, config, keys, bin, defaultGenerator>>

NextFailure == JsCompileTry \/ WasmCompileCall \/ WasmCompileLookup \/ WasmCompileTry

SpecFailure == InitCompile /\ [][NextFailure]_vars

Failed(i) == tasks[i].pc = "failed"

\* the step in which call i of compile raises its error
Fails(i) ==
    /\ i \in DOMAIN tasks' /\ tasks'[i].pc = "failed"
    /\ i \in DOMAIN tasks => tasks[i].pc # "failed"

\* no entry of the cache and no function returned by compile comes from a
\* call that failed
NothingBroken ==
    /\ \A k \in DOMAIN userGen.cache :
           userGen.cache[k] \in DOMAIN tasks /\ tasks[userGen.cache[k]].pc = "done"
    /\ \A i \in DOMAIN tasks :
           tasks[i].pc = "done" =>
               tasks[i].artifact \in DOMAIN tasks /\ tasks[tasks[i].artifact].pc = "done"

\* C27: a compile whose artifact cannot be materialized raises an error and
\* stores nothing: the step that fails leaves the cache as it was, no cache
\* entry and no returned function ever comes from a failed call, so a later
\* compile with the same fingerprint materializes again.
C27_FailedCompileStoresNothing ==
    /\ []NothingBroken
    /\ [][\A i \in 1..MaxCompiles : Fails(i) => userGen'.cache = userGen.cache]_vars

\* C27 witness: a call failed and a later call with the same fingerprint
\* compiled again and stored its own artifact
C27_Witness ==
    \E i \in DOMAIN tasks : \E j \in DOMAIN tasks :
        /\ i < j /\ Failed(i) /\ tasks[j].key = tasks[i].key
        /\ tasks[j].pc = "done" /\ tasks[j].artifact = j
        /\ tasks[i].key \in DOMAIN userGen.cache /\ userGen.cache[tasks[i].key] = j

(***************************************************************************)
(* SpecFlight: execute calls in flight together on one WASMGenerator.  A   *)
(* task is one call of execute: it runs synchronously into compile up to   *)
(* await this.initialize(), continues with the lookup and the store of     *)
(* compile, and finishes by staging, calling the function compile returned *)
(* and copying the destination back.                                       *)
(***************************************************************************)
FlightArgs == {Args(8, MaxRows, 0, 0, 8, 0, 0, w, 1) : w \in {1, MaxRectW}}

ArgsOf(params) ==
    Args(Val(params.srcWidth), Val(params.srcHeight), Val(params.srcX), Val(params.srcY),
         Val(params.dstWidth), Val(params.dstX), Val(params.dstY), Val(params.width),
         Val(params.height))

InitFlight ==
    /\ heap = InitBuffers(1, 8, 8)
    /\ call = IdleCall(heap, Env(FALSE, FALSE))
    /\ userGen = NewGenerator("WASMGenerator", DefaultConfig.compiler)
    /\ genLog = NoLog
    /\ config = DefaultConfig
    /\ defaultGenerator = DefaultGenerator
    /\ keys = NoKeys
    /\ bin = NoBin
    /\ tasks = << >>

\* generator.execute(src, ..., dst, ...): params, executeWithCopy up to
\* await this.compile(...), compile up to await this.initialize()
FlightExecute ==
    /\ Len(tasks) < MaxCompiles
    /\ \E a \in FlightArgs :
         LET params == ExecuteParams(a, userGen.options)
         IN  tasks' = Append(tasks, Task(params, WasmGetCacheKey(params), "initialize", 0))
    /\ UNCHANGED <<heap, call, userGen, genLog, config, keys, bin, defaultGenerator>>

\* executeWithCopy after await this.compile(...): staging into the memory
\* this call created, the call of the function (bound to that memory when
\* this call instantiated it, to another call's memory otherwise) and the
\* copy back from this call's memory
FlightFinish ==
    \E i \in 1..Len(tasks) :
        /\ tasks[i].pc = "done"
        /\ heap' = IF tasks[i].artifact = i
                   THEN WasmExecuteStaged(NewGenerator("WASMGenerator", userGen.options),
                                          tasks[i].key, 1, heap, "src", "dst",
                                          ArgsOf(tasks[i].params)).heap
                   ELSE heap
        /\ tasks' = [tasks EXCEPT ![i].pc = "executed"]
        /\ UNCHANGED <<call, userGen, genLog, config, keys, bin, defaultGenerator>>

NextFlight == FlightExecute \/ WasmCompileLookup \/ WasmCompileStore \/ FlightFinish

SpecFlight == InitFlight /\ [][NextFlight]_vars

\* call i went through WebAssembly.compile and WebAssembly.instantiate
Instantiated(i) == tasks[i].pc \in {"done", "executed"} /\ tasks[i].artifact = i

OverlapArgs ==
    {Args(8, MaxRows, t[1], t[3], 8, t[2], t[4], t[5], t[6]) :
        t \in {u \in (0..4) \X (0..4) \X (0..1) \X (0..1) \X (1..MaxRectW) \X (1..MaxRows) :
                  /\ u[1] - u[2] \in -2..2
                  /\ u[3] + u[6] <= MaxRows
                  /\ u[4] + u[6] <= MaxRows}}

OverlapOptions ==
    {NoOptions} \cup
    {Options(<<TRUE>>, << >>, <<NameJs>>, <<CompilerFlags(ul, ic, TRUE, FALSE)>>, "none") :
        ul \in BOOLEAN, ic \in BOOLEAN}

InitOverlap == InitWith({InitBuffers(p, 8, 8) : p \in 0..MaxPattern}, {Env(FALSE, FALSE)})

OverlapCopy ==
    /\ call.pc = "idle"
    /\ \E a \in OverlapArgs : \E o \in OverlapOptions : Bitblt("src", "src", a, o)

NextOverlap == OverlapCopy

SpecOverlap == InitOverlap /\ [][NextOverlap]_vars

\* the (element index, bit position) pairs of the source and of the
\* destination rectangle of the call
SrcBits ==
    {<<FloorDiv32(call.args.srcX + x) + (call.args.srcY + y) * CeilDiv32(call.args.srcWidth),
       (call.args.srcX + x) % WordBits>> :
        x \in 0..(call.args.width - 1), y \in 0..(call.args.height - 1)}

DstBits ==
    {<<FloorDiv32(call.args.dstX + x) + (call.args.dstY + y) * CeilDiv32(call.args.dstWidth),
       (call.args.dstX + x) % WordBits>> :
        x \in 0..(call.args.width - 1), y \in 0..(call.args.height - 1)}

Overlapping == call.s = call.d /\ SrcBits \cap DstBits # {}

\* C29: with one buffer as source and destination and overlapping
\* rectangles, a bitblt call with verification on and the textual back-end
\* completes without a verification failure and leaves the buffer as the
\* reference's in-place forward row-major copy leaves it.
C29_OverlapVerifies ==
    (BitbltDone /\ Textual /\ call.opts.useCompiled /\ call.opts.verifyResults /\ Overlapping) =>
        /\ call.outcome = "ok"
        /\ heap = referenceBitBLT(call.pre, call.s, call.d, call.args)

(***************************************************************************)
(* SpecDefault: setGeneratorType with recognized and unrecognized names,   *)
(* between bitblt calls that name no back-end.                             *)
(***************************************************************************)
DefaultNames ==
    {NameJs, NameWasm, <<"u", "n", "k", "n", "o", "w", "n">>,
     <<"t", "e", "x", "t", "u", "a", "l">>}

InitDefault == InitWith({InitBuffers(p, 8, 8) : p \in 0..MaxPattern}, {Env(FALSE, FALSE)})

\* setGeneratorType(type): the assignment to config.generatorType, then the
\* factory call whose result is assigned to defaultGenerator unless it throws
SetGeneratorType ==
    /\ call.pc = "idle"
    /\ \E type \in DefaultNames :
         LET made == createGenerator(type, config.compiler)
         IN  /\ config' = [config EXCEPT !.generatorType = type]
             /\ defaultGenerator' = IF made.error = "none" THEN made.generator
                                    ELSE defaultGenerator
             /\ call' = [call EXCEPT
                            !.pc = "settled", !.kind = "setGeneratorType", !.type = type,
                            !.pre = heap, !.n = @ + 1,
                            !.ret = IF made.error = "none" THEN "value" ELSE "throw",
                            !.outcome = IF made.error = "none" THEN "ok" ELSE made.error]
    /\ UNCHANGED <<heap, userGen, genLog, keys, bin, tasks>>

\* bitblt(src, ..., dst, ...) and bitblt(..., {verifyResults: false})
DefaultBitblt ==
    /\ call.pc = "idle"
    /\ \E verify \in {<< >>, <<FALSE>>} :
           Bitblt("src", "dst", FactoryArgs, Options(verify, << >>, << >>, << >>, "none"))

NextDefault == SetGeneratorType \/ DefaultBitblt \/ ExecuteResume \/ ThenVerify \/ Again

SpecDefault == InitDefault /\ [][NextDefault]_vars

Unrecognized(type) == toLowerCase(type) \notin RecognizedNames

\* the step is a call of setGeneratorType with an unrecognized name
SetsUnrecognized ==
    /\ call.pc = "idle"
    /\ call'.pc = "settled" /\ call'.kind = "setGeneratorType"
    /\ Unrecognized(call'.type)

\* C30: setGeneratorType with an unrecognized name fails with the
\* unknown-back-end error and leaves config.generatorType and the default
\* generator as they were, so bitblt calls that name no back-end never
\* fail with that error afterwards.
C30_FailedSetKeepsConfig ==
    /\ [][SetsUnrecognized =>
              /\ call'.outcome = "Unknown generator type"
              /\ config' = config
              /\ defaultGenerator' = defaultGenerator]_vars
    /\ [](BitbltDone => call.outcome # "Unknown generator type")

====
